---- MODULE Spec2Model ----
(***************************************************************************)
(* Active Window Details (GNOME Shell extension): the D-Bus query          *)
(* operations of ActiveWindowDetailsExtension over the window list of the  *)
(* compositor and the per-process records under /proc.                     *)
(*                                                                         *)
(* Strings are sequences of one-character strings, so that includes(),     *)
(* split(), toLowerCase(), trim() and the regular expressions of the       *)
(* source are computed character by character.                             *)
(***************************************************************************)
EXTENDS Integers, Sequences, FiniteSets, TLC

\* JS null / undefined: a marker that no string equals (every string is a
\* sequence of one-character elements).
NULL == << "null" >>

\* ------------------------------------------------------------------------
\* String primitives of the JavaScript runtime
\* ------------------------------------------------------------------------

UpperChars == <<"A","B","C","D","E","F","G","H","I","J","K","L","M","N","O","P","Q","R","S","T","U","V","W","X","Y","Z">>
LowerChars == <<"a","b","c","d","e","f","g","h","i","j","k","l","m","n","o","p","q","r","s","t","u","v","w","x","y","z">>
DigitChars == <<"0","1","2","3","4","5","6","7","8","9">>

\* the characters the regular-expression class \s matches
IsSpace(c) == c \in {" ", "\t", "\n", "\r"}

IsAlnum(c) ==
    \E i \in 1..26 : c = UpperChars[i] \/ c = LowerChars[i] \/ (i <= 10 /\ c = DigitChars[i])

LowerChar(c) ==
    IF \E i \in 1..26 : UpperChars[i] = c
    THEN LowerChars[CHOOSE i \in 1..26 : UpperChars[i] = c]
    ELSE c

\* String.prototype.toLowerCase
toLowerCase(s) == [i \in 1..Len(s) |-> LowerChar(s[i])]

\* does sub occur in s at position i
OccursAt(s, sub, i) ==
    /\ i >= 1
    /\ i + Len(sub) - 1 <= Len(s)
    /\ \A k \in 1..Len(sub) : s[i + k - 1] = sub[k]

\* String.prototype.includes
includes(s, sub) == \E i \in 1..(Len(s) + 1) : OccursAt(s, sub, i)

\* String.prototype.indexOf, 1-based; 0 when sub does not occur
indexOf(s, sub) ==
    IF includes(s, sub)
    THEN CHOOSE i \in 1..(Len(s) + 1) :
            OccursAt(s, sub, i) /\ \A j \in 1..(i - 1) : ~OccursAt(s, sub, j)
    ELSE 0

\* String.prototype.replace with a string pattern: the first occurrence only
replace(s, pat, rep) ==
    LET i == indexOf(s, pat)
    IN  IF i = 0 THEN s
        ELSE SubSeq(s, 1, i - 1) \o rep \o SubSeq(s, i + Len(pat), Len(s))

\* String.prototype.split with a non-empty string separator
RECURSIVE split(_, _)
split(s, sep) ==
    LET i == indexOf(s, sep)
    IN  IF i = 0 THEN << s >>
        ELSE << SubSeq(s, 1, i - 1) >> \o split(SubSeq(s, i + Len(sep), Len(s)), sep)

\* String.prototype.trim
RECURSIVE trimStart(_)
trimStart(s) ==
    IF s # << >> /\ IsSpace(s[1]) THEN trimStart(Tail(s)) ELSE s

RECURSIVE trimEnd(_)
trimEnd(s) ==
    IF s # << >> /\ IsSpace(s[Len(s)]) THEN trimEnd(SubSeq(s, 1, Len(s) - 1)) ELSE s

trim(s) == trimEnd(trimStart(s))

\* x || "" for a value that is a string or null
OrEmpty(x) == IF x = NULL THEN << >> ELSE x

\* JS truthiness of a string
Truthy(s) == s # NULL /\ s # << >>

\* end of the maximal run of non-whitespace characters that starts at i
\* (i - 1 when s[i] is whitespace or i is past the end)
RECURSIVE RunEnd(_, _)
RunEnd(s, i) ==
    IF i <= Len(s) /\ ~IsSpace(s[i]) THEN RunEnd(s, i + 1) ELSE i - 1

\* end of the maximal run of [a-zA-Z0-9] that starts at i
RECURSIVE AlnumEnd(_, _)
AlnumEnd(s, i) ==
    IF i <= Len(s) /\ IsAlnum(s[i]) THEN AlnumEnd(s, i + 1) ELSE i - 1

\* smallest element of a non-empty set of integers, largest likewise
Least(S) == CHOOSE x \in S : \A y \in S : x <= y
Greatest(S) == CHOOSE x \in S : \A y \in S : x >= y

\* windowTitle.match(/(https?:\/\/[^\s]+)/): group 1, or NULL without a match
sHttp == <<"h","t","t","p",":","/","/">>
sHttps == <<"h","t","t","p","s",":","/","/">>
matchUrl(s) ==
    LET SchemeLen(i) == IF OccursAt(s, sHttps, i) THEN Len(sHttps)
                        ELSE IF OccursAt(s, sHttp, i) THEN Len(sHttp) ELSE 0
        Starts == { i \in 1..Len(s) :
                      /\ SchemeLen(i) > 0
                      /\ RunEnd(s, i + SchemeLen(i)) >= i + SchemeLen(i) }
    IN  IF Starts = {} THEN NULL
        ELSE LET i == Least(Starts)
             IN  SubSeq(s, i, RunEnd(s, i + SchemeLen(i)))

\* windowTitle.match(/([\/][^\s]*)/): group 1, or NULL without a match
matchPath(s) ==
    LET Starts == { i \in 1..Len(s) : s[i] = "/" }
    IN  IF Starts = {} THEN NULL
        ELSE LET i == Least(Starts) IN SubSeq(s, i, RunEnd(s, i + 1))

\* windowTitle.match(/([\/][^\s]*\.[a-zA-Z0-9]+)/): group 1, or NULL.
\* [^\s]* is greedy: of the dots of the run that are followed by an
\* alphanumeric, the last one is taken.
matchDocPath(s) ==
    LET Dots(i) == { j \in (i + 1)..RunEnd(s, i + 1) :
                       /\ s[j] = "."
                       /\ j + 1 <= Len(s)
                       /\ IsAlnum(s[j + 1]) }
        Starts == { i \in 1..Len(s) : s[i] = "/" /\ Dots(i) # {} }
    IN  IF Starts = {} THEN NULL
        ELSE LET i == Least(Starts)
                 j == Greatest(Dots(i))
             IN  SubSeq(s, i, AlnumEnd(s, j + 1))

\* Array.prototype.some and Array.prototype.find over a sequence
some(seq, P(_)) == \E i \in 1..Len(seq) : P(seq[i])

findFirst(seq, P(_)) ==
    IF \E i \in 1..Len(seq) : P(seq[i])
    THEN seq[Least({ i \in 1..Len(seq) : P(seq[i]) })]
    ELSE NULL

\* ------------------------------------------------------------------------
\* Keyword lists of the source
\* ------------------------------------------------------------------------

browserClasses ==
    << <<"f","i","r","e","f","o","x">>,
       <<"c","h","r","o","m","e">>,
       <<"b","r","a","v","e","-","b","r","o","w","s","e","r">>,
       <<"c","h","r","o","m","i","u","m">>,
       <<"s","a","f","a","r","i">>,
       <<"e","d","g","e">> >>

ideClasses ==
    << <<"c","o","d","e">>,
       <<"c","u","r","s","o","r">>,
       <<"a","t","o","m">>,
       <<"s","u","b","l","i","m","e">>,
       <<"i","n","t","e","l","l","i","j">>,
       <<"p","y","c","h","a","r","m">>,
       <<"v","s","c","o","d","e">>,
       <<"v","i","m">>,
       <<"e","m","a","c","s">>,
       <<"g","e","d","i","t">> >>

terminalClasses ==
    << <<"g","n","o","m","e","-","t","e","r","m","i","n","a","l">>,
       <<"t","e","r","m","i","n","a","l">>,
       <<"k","o","n","s","o","l","e">>,
       <<"x","t","e","r","m">>,
       <<"a","l","a","c","r","i","t","t","y">>,
       <<"t","e","r","m","i","n","a","t","o","r">> >>

fileManagerClasses ==
    << <<"n","a","u","t","i","l","u","s">>,
       <<"f","i","l","e","s">>,
       <<"d","o","l","p","h","i","n">>,
       <<"t","h","u","n","a","r">>,
       <<"p","c","m","a","n","f","m">>,
       <<"n","e","m","o">> >>

documentClasses ==
    << <<"e","v","i","n","c","e">>,
       <<"o","k","u","l","a","r">>,
       <<"l","i","b","r","e","o","f","f","i","c","e">>,
       <<"w","r","i","t","e","r">>,
       <<"c","a","l","c">>,
       <<"i","m","p","r","e","s","s">>,
       <<"d","r","a","w">>,
       <<"m","a","t","h">>,
       <<"a","c","r","o","r","e","a","d">>,
       <<"x","p","d","f">> >>

sHyphen == <<"-">>
sSep == <<" ","-"," ">>
sLitHttp == <<"h","t","t","p">>
sLitWww == <<"w","w","w">>
sProto == <<":","/","/">>
sSlash == <<"/">>
sDot == <<".">>

\* ------------------------------------------------------------------------
\* Sample window classes and titles
\* ------------------------------------------------------------------------

ClassSamples ==
    { NULL,
      <<"B","r","a","v","e","-","b","r","o","w","s","e","r">>,
      <<"b","r","a","v","e","b","r","o","w","s","e","r">>,
      <<"C","u","r","s","o","r">>,
      <<"x","t","e","r","m">>,
      <<"N","a","u","t","i","l","u","s">>,
      <<"E","v","i","n","c","e">>,
      <<"G","i","m","p">>,
      <<"c","h","r","o","m","e","-","v","s","c","o","d","e",".","d","e","v">>,
      <<"c","o","d","e","-","t","e","r","m","i","n","a","l">>,
      <<"n","e","m","o","-","t","e","r","m","i","n","a","l">>,
      <<"w","r","i","t","e","r","-","f","i","l","e","s">> }

TitleSamples ==
    { NULL,
      <<"G","i","t","H","u","b"," ","-"," ","h","t","t","p","s",":","/","/","g","i","t","h","u","b",".","c","o","m"," ","-"," ","B","r","a","v","e">>,
      <<"U","n","t","i","t","l","e","d"," ","D","o","c","u","m","e","n","t">>,
      <<"R","E","A","D","M","E",".","m","d"," ","-"," ","m","y","p","r","o","j","e","c","t"," ","-"," ","C","u","r","s","o","r">>,
      <<"/","h","o","m","e","/","u","s","e","r","/","v","e","r","y","/","l","o","n","g","/","p","a","t","h","/","t","h","a","t","/","l","o","o","k","s","/","l","i","k","e","/","a","/","p","a","t","h",".","e","x","t"," ","-"," ","p","r","o","j","e","c","t"," ","-"," ","C","u","r","s","o","r">>,
      <<"s","e","e"," ","h","t","t","p","s",":","/","/","e","x","a","m","p","l","e",".","c","o","m","/","d","o","c","s"," ","n","o","w">>,
      <<"H","o","m","e"," ","/","h","o","m","e","/","u","s","e","r","/","D","o","c","u","m","e","n","t","s">>,
      <<"r","e","p","o","r","t",".","p","d","f"," ","-"," ","E","v","i","n","c","e">>,
      <<"n","o","t","e","s",".","v","2"," ","-"," ","i","n","/","o","u","t">>,
      <<"a","a","a","a","a","a","a","a","a","a","a","a","a","a","a","a","a","a","a","a","a","a","a","a","a","a","a","a","a","a","a","a","a","a","a","a","a","a","a","a","a","a","a","a","a","a",".","t","x","t"," ","-"," ","x">> }

\* titles of the windows that open later or come in pairs
OtherTitles ==
    { <<"u","s","e","r","@","h","o","s","t",":"," ","~">> }

RetitleSamples ==
    { <<"U","n","t","i","t","l","e","d"," ","D","o","c","u","m","e","n","t">> }

\* ------------------------------------------------------------------------
\* Decimal rendering of a number: String(n) and template literals
\* ------------------------------------------------------------------------

RECURSIVE NatToString(_)
NatToString(n) ==
    IF n < 10 THEN << DigitChars[n + 1] >>
    ELSE NatToString(n \div 10) \o << DigitChars[(n % 10) + 1] >>

\* ------------------------------------------------------------------------
\* Bounds
\* ------------------------------------------------------------------------

\* most windows open at a time
MaxWindows == 2

\* largest reading of the millisecond clock
MaxClock == 1

Clock == 0..MaxClock

\* ------------------------------------------------------------------------
\* The windowing system: Meta.Window objects behind global.get_window_actors()
\* ------------------------------------------------------------------------

Pids == {101, 202}

\* get_workspace() results: none, a workspace without meta_workspace, one with
NoWorkspace == [has |-> FALSE, index |-> 0, meta |-> FALSE, name |-> << >>]

AuxSamples ==
    { [role |-> NULL, ws |-> NoWorkspace],
      [role |-> <<"b","r","o","w","s","e","r","-","w","i","n","d","o","w">>,
       ws |-> [has |-> TRUE, index |-> 0, meta |-> FALSE, name |-> << >>]],
      [role |-> NULL,
       ws |-> [has |-> TRUE, index |-> 1, meta |-> TRUE, name |-> <<"M","a","i","n">>]] }

DefaultAux == [role |-> NULL, ws |-> NoWorkspace]

DefaultRect == [x |-> 10, y |-> 20, width |-> 800, height |-> 600]

MkWindow(f, t, c, p, aux) ==
    [focus |-> f, title |-> t, cls |-> c, pid |-> p,
     role |-> aux.role, ws |-> aux.ws, rect |-> DefaultRect]

\* a single window of every class with every title, focused or not
ClassTitleWindows ==
    { MkWindow(f, t, c, 101, DefaultAux) :
        f \in BOOLEAN, t \in TitleSamples, c \in ClassSamples }

\* a single IDE window with every role and workspace
AuxWindows ==
    { MkWindow(f, <<"R","E","A","D","M","E",".","m","d"," ","-"," ","m","y","p","r","o","j","e","c","t"," ","-"," ","C","u","r","s","o","r">>, <<"C","u","r","s","o","r">>, 101, aux) :
        f \in BOOLEAN, aux \in AuxSamples }

\* windows that may be opened later
NewWindows ==
    { MkWindow(TRUE, <<"u","s","e","r","@","h","o","s","t",":"," ","~">>, <<"x","t","e","r","m">>, 202, DefaultAux) }

\* ------------------------------------------------------------------------
\* Process records under /proc/<pid>
\* ------------------------------------------------------------------------

\* outcome of GLib.file_get_contents: [success, contents], or an exception
ReadOk(d) == [st |-> "ok", data |-> d]
ReadFail == [st |-> "fail", data |-> << >>]
ReadThrow == [st |-> "throw", data |-> << >>]

\* outcome of query_info(...).get_symlink_target(): a target (possibly
\* null), or an exception
LinkOk(t) == [st |-> "ok", data |-> t]
LinkThrow == [st |-> "throw", data |-> << >>]

ProcAlive ==
    [comm |-> ReadOk(<<"c","u","r","s","o","r","\n">>),
     exe |-> ReadThrow,
     exeLink |-> LinkOk(<<"/","u","s","r","/","b","i","n","/","c","u","r","s","o","r">>),
     cmdline |-> ReadOk(<< "c", "u", "r", "s", "o", "r", "NUL", "-", "n", "NUL" >>),
     cwd |-> LinkOk(<<"/","h","o","m","e","/","u","s","e","r","/","m","y","p","r","o","j","e","c","t">>),
     stat |-> ReadOk(<<"1","0","1"," ","(","c","u","r","s","o","r",")"," ","S"," ","1"," ","1","0","1">>)]

ProcGone ==
    [comm |-> ReadThrow, exe |-> ReadThrow, exeLink |-> LinkThrow,
     cmdline |-> ReadThrow, cwd |-> LinkThrow, stat |-> ReadThrow]

ProcRestricted ==
    [comm |-> ReadOk(<<"W","e","b"," ","C","o","n","t","e","n","t","\n">>),
     exe |-> ReadFail,
     exeLink |-> LinkOk(<<"/","u","s","r","/","l","i","b","/","f","i","r","e","f","o","x","/","f","i","r","e","f","o","x">>),
     cmdline |-> ReadFail,
     cwd |-> LinkOk(NULL),
     stat |-> ReadOk(<<"2","0","2"," ","(","W","e","b"," ","C","o","n","t","e","n","t",")"," ","S"," ","7","7"," ","2","0","2">>)]

ProcRoot ==
    [comm |-> ReadFail,
     exe |-> ReadOk(<<"E","L","F">>),
     exeLink |-> LinkOk(NULL),
     cmdline |-> ReadOk(<< >>),
     cwd |-> LinkOk(<<"/">>),
     stat |-> ReadOk(<<"1","0","1">>)]

ProcSamples == { ProcAlive, ProcGone, ProcRestricted, ProcRoot }

\* ------------------------------------------------------------------------
\* State
\* ------------------------------------------------------------------------

VARIABLES
    wins,   \* global.get_window_actors().map(a => a.meta_window), in order
    proc,   \* the /proc records of each process
    ret,    \* the last completed call: operation, returned value, records read
    seen,   \* a getAppContext reply the caller remembers
    pc,     \* position of a getAppContext call whose lookups are interleaved
    frame,  \* the locals of that call
    dbus,   \* this._dbus: the exported D-Bus object, or none
    script  \* a run of install.sh: its position, locals and surroundings

vars == << wins, proc, ret, seen, pc, frame, dbus, script >>

\* ------------------------------------------------------------------------
\* Values an operation hands back to the D-Bus layer
\* ------------------------------------------------------------------------

\* a plain string
Str(s) == [t |-> "str", v |-> s]

\* JSON.stringify(o): the string that encodes the object o
Json(o) == [t |-> "json", v |-> o]

\* the operation returned null instead of a string
NotAString == [t |-> "null", v |-> NULL]

\* an exception left the operation
Thrown == [t |-> "throw", v |-> NULL]

\* return of an expression that is a string or null
Raw(x) == IF x = NULL THEN NotAString ELSE Str(x)

IsString(r) == r.t \in {"str", "json"}

IsEmptyString(r) == r.t = "str" /\ r.v = << >>

\* result of an operation together with the process records it read
Out(r, rd) == [val |-> r, reads |-> rd]

NoFrame ==
    [appType |-> "none", windowClass |-> << >>, windowTitle |-> << >>,
     pid |-> 0, first |-> Str(<< >>), second |-> Str(<< >>)]

\* ------------------------------------------------------------------------
\* Focused-window lookup
\* ------------------------------------------------------------------------

\* index of the window .find(w => w.has_focus()) returns, 0 when undefined
\* variant: the last window reporting focus is selected
FocusedIndex_Last ==
    IF \E i \in 1..Len(wins) : wins[i].focus
    THEN Greatest({ i \in 1..Len(wins) : wins[i].focus })
    ELSE 0

FocusedIndex ==
    IF \E i \in 1..Len(wins) : wins[i].focus
    THEN Least({ i \in 1..Len(wins) : wins[i].focus })
    ELSE 0

HasFocused == FocusedIndex # 0

focusedWindow == wins[FocusedIndex]

\* ------------------------------------------------------------------------
\* Phase 1: core window and process operations
\* ------------------------------------------------------------------------

getWinFocusData ==
    IF ~HasFocused THEN Out(Str(<< >>), {})
    ELSE Out(Raw(focusedWindow.title), {})

getWinPID ==
    IF ~HasFocused THEN Out(Str(<< >>), {})
    ELSE Out(Str(NatToString(focusedWindow.pid)), {})

getWinClass ==
    IF ~HasFocused THEN Out(Str(<< >>), {})
    ELSE Out(Raw(focusedWindow.cls), {})

getWinRole ==
    IF ~HasFocused THEN Out(Str(<< >>), {})
    ELSE Out(Str(OrEmpty(focusedWindow.role)), {})

\* variant: falls back to the first window when none has focus
getProcessName_FirstWindow ==
    IF Len(wins) = 0 THEN Out(Str(<< >>), {})
    ELSE LET pid == IF HasFocused THEN focusedWindow.pid ELSE wins[1].pid
             r == proc[pid].comm
         IN  Out(IF r.st = "ok" THEN Str(trim(r.data)) ELSE Str(<< >>),
                 { << pid, "comm" >> })

getProcessName ==
    IF ~HasFocused THEN Out(Str(<< >>), {})
    ELSE LET pid == focusedWindow.pid
             r == proc[pid].comm
         IN  Out(IF r.st = "ok" THEN Str(trim(r.data)) ELSE Str(<< >>),
                 { << pid, "comm" >> })

getProcessPath ==
    IF ~HasFocused THEN Out(Str(<< >>), {})
    ELSE LET pid == focusedWindow.pid
             r == proc[pid].exe
             l == proc[pid].exeLink
         IN  CASE r.st = "ok" -> Out(Str(trim(r.data)), { << pid, "exe" >> })
               [] r.st = "fail" -> Out(Str(<< >>), { << pid, "exe" >> })
               [] r.st = "throw" ->
                    Out(IF l.st = "ok" THEN Str(OrEmpty(l.data)) ELSE Str(<< >>),
                        { << pid, "exe" >>, << pid, "exeLink" >> })

\* contents.replace(/\0/g, ' ')
NulToSpace(s) == [i \in 1..Len(s) |-> IF s[i] = "NUL" THEN " " ELSE s[i]]

getProcessCmdline ==
    IF ~HasFocused THEN Out(Str(<< >>), {})
    ELSE LET pid == focusedWindow.pid
             r == proc[pid].cmdline
         IN  Out(IF r.st = "ok" THEN Str(trim(NulToSpace(r.data))) ELSE Str(<< >>),
                 { << pid, "cmdline" >> })

\* query_info('standard::symlink-target').get_symlink_target() || "" inside
\* try/catch, with "" after the catch
\* variant: a link without a target is handed on as null
readCwd_KeepsNull(pid) ==
    LET l == proc[pid].cwd
    IN  IF l.st = "ok" THEN l.data ELSE NULL

readCwd(pid) ==
    LET l == proc[pid].cwd
    IN  IF l.st = "ok" THEN OrEmpty(l.data) ELSE << >>

getProcessCwd ==
    IF ~HasFocused THEN Out(Str(<< >>), {})
    ELSE LET pid == focusedWindow.pid
         IN  Out(Str(readCwd(pid)), { << pid, "cwd" >> })

getWinGeometry ==
    IF ~HasFocused THEN Out(Str(<< >>), {})
    ELSE LET rect == focusedWindow.rect
         IN  Out(Json([x |-> rect.x, y |-> rect.y,
                       width |-> rect.width, height |-> rect.height]), {})

getWinWorkspace ==
    IF ~HasFocused THEN Out(Str(<< >>), {})
    ELSE LET workspace == focusedWindow.ws
         IN  IF workspace.has
             THEN Out(Json([index |-> workspace.index,
                            name |-> IF workspace.meta THEN workspace.name
                                     ELSE <<"W","o","r","k","s","p","a","c","e"," ">>
                                          \o NatToString(workspace.index + 1)]), {})
             ELSE Out(Str(<< >>), {})

\* variant: an exception of the read leaves the operation
getProcessParent_Propagating ==
    IF ~HasFocused THEN Out(Str(<< >>), {})
    ELSE LET pid == focusedWindow.pid
             r == proc[pid].stat
             parts == split(r.data, << " " >>)
         IN  Out(CASE r.st = "ok" ->
                        (IF Len(parts) >= 4 THEN Str(parts[4]) ELSE Str(<< >>))
                   [] r.st = "fail" -> Str(<< >>)
                   [] r.st = "throw" -> Thrown,
                 { << pid, "stat" >> })

getProcessParent ==
    IF ~HasFocused THEN Out(Str(<< >>), {})
    ELSE LET pid == focusedWindow.pid
             r == proc[pid].stat
             parts == split(r.data, << " " >>)
         IN  Out(IF r.st = "ok"
                 THEN (IF Len(parts) >= 4 THEN Str(parts[4]) ELSE Str(<< >>))
                 ELSE Str(<< >>),
                 { << pid, "stat" >> })

\* ------------------------------------------------------------------------
\* Phase 2: application-specific operations
\* ------------------------------------------------------------------------

\* window class and title as the extractors read them: get_wm_class() || ""
\* and get_title() || ""
focusedClass == OrEmpty(focusedWindow.cls)

focusedTitle == OrEmpty(focusedWindow.title)

hasKeyword(windowClass, keywords) ==
    some(keywords, LAMBDA k : includes(toLowerCase(windowClass), k))

\* the browser test also tries each keyword with its first hyphen removed
isBrowser(windowClass) ==
    some(browserClasses,
         LAMBDA browser :
            \/ includes(toLowerCase(windowClass), browser)
            \/ includes(toLowerCase(windowClass), replace(browser, sHyphen, << >>)))

\* variant: the class is not lower-cased before the comparison
isIde_CaseSensitive(windowClass) ==
    some(ideClasses, LAMBDA k : includes(windowClass, k))

isIde(windowClass) == hasKeyword(windowClass, ideClasses)

isTerminal(windowClass) == hasKeyword(windowClass, terminalClasses)

isFileManager(windowClass) == hasKeyword(windowClass, fileManagerClasses)

isDocument(windowClass) == hasKeyword(windowClass, documentClasses)

\* variant: the IDE keywords are tried before the browser keywords
detectAppType_IdeFirst(windowClass) ==
    IF some(ideClasses, LAMBDA ide : includes(toLowerCase(windowClass), ide))
    THEN "ide"
    ELSE IF some(browserClasses,
                 LAMBDA browser :
                    \/ includes(toLowerCase(windowClass), browser)
                    \/ includes(toLowerCase(windowClass), replace(browser, sHyphen, << >>)))
    THEN "browser"
    ELSE IF some(terminalClasses, LAMBDA term : includes(toLowerCase(windowClass), term))
    THEN "terminal"
    ELSE IF some(fileManagerClasses, LAMBDA fm : includes(toLowerCase(windowClass), fm))
    THEN "file_manager"
    ELSE IF some(documentClasses, LAMBDA doc : includes(toLowerCase(windowClass), doc))
    THEN "document"
    ELSE "unknown"

\* the if / else-if chain over the window class
detectAppType(windowClass) ==
    IF some(browserClasses,
            LAMBDA browser :
               \/ includes(toLowerCase(windowClass), browser)
               \/ includes(toLowerCase(windowClass), replace(browser, sHyphen, << >>)))
    THEN "browser"
    ELSE IF some(ideClasses, LAMBDA ide : includes(toLowerCase(windowClass), ide))
    THEN "ide"
    ELSE IF some(terminalClasses, LAMBDA term : includes(toLowerCase(windowClass), term))
    THEN "terminal"
    ELSE IF some(fileManagerClasses, LAMBDA fm : includes(toLowerCase(windowClass), fm))
    THEN "file_manager"
    ELSE IF some(documentClasses, LAMBDA doc : includes(toLowerCase(windowClass), doc))
    THEN "document"
    ELSE "unknown"

\* The classes and titles a window of this model can have. The string
\* computations above are evaluated once for each of them.
ClassStrings ==
    { OrEmpty(c) : c \in ClassSamples } \cup { OrEmpty(w.cls) : w \in NewWindows }

TitleStrings ==
    { OrEmpty(t) : t \in TitleSamples \cup RetitleSamples \cup OtherTitles }
    \cup { OrEmpty(w.title) : w \in NewWindows }

\* variant: the method is "window_title" whatever the field holds
extractionMethod_AlwaysTitle(value) ==
    IF Truthy(value) \/ value = << >> THEN <<"w","i","n","d","o","w","_","t","i","t","l","e">> ELSE <<"t","i","t","l","e","_","p","a","r","s","i","n","g","_","f","a","i","l","e","d">>

extractionMethod(value) ==
    IF Truthy(value) THEN <<"w","i","n","d","o","w","_","t","i","t","l","e">> ELSE <<"t","i","t","l","e","_","p","a","r","s","i","n","g","_","f","a","i","l","e","d">>

\* variant: the first segment of the title is taken, whatever it holds
browserUrlOf_FirstSegment(windowTitle) ==
    IF /\ includes(windowTitle, sSep)
       /\ (includes(windowTitle, sLitHttp) \/ includes(windowTitle, sLitWww))
    THEN split(windowTitle, sSep)[1]
    ELSE IF includes(windowTitle, sProto)
         THEN OrEmpty(matchUrl(windowTitle))
         ELSE << >>

browserUrlOf(windowTitle) ==
    IF /\ includes(windowTitle, sSep)
       /\ (includes(windowTitle, sLitHttp) \/ includes(windowTitle, sLitWww))
    THEN OrEmpty(findFirst(split(windowTitle, sSep),
                           LAMBDA part : includes(part, sLitHttp) \/ includes(part, sLitWww)))
    ELSE IF includes(windowTitle, sProto)
         THEN OrEmpty(matchUrl(windowTitle))
         ELSE << >>

\* variant: a first segment of exactly 50 characters is accepted too
activeFileOf_UpToFifty(windowTitle) ==
    IF includes(windowTitle, sSep)
    THEN LET firstPart == split(windowTitle, sSep)[1]
         IN  IF /\ includes(firstPart, sDot)
                /\ ~includes(firstPart, sSlash)
                /\ Len(firstPart) <= 50
             THEN firstPart
             ELSE << >>
    ELSE << >>

activeFileOf(windowTitle) ==
    IF includes(windowTitle, sSep)
    THEN LET firstPart == split(windowTitle, sSep)[1]
         IN  IF /\ includes(firstPart, sDot)
                /\ ~includes(firstPart, sSlash)
                /\ Len(firstPart) < 50
             THEN firstPart
             ELSE << >>
    ELSE << >>

\* variant: the run is taken from the last "/" of the title
currentPathOf_LastSlash(windowTitle) ==
    IF includes(windowTitle, sSlash)
    THEN LET i == Greatest({ k \in 1..Len(windowTitle) : windowTitle[k] = "/" })
         IN  SubSeq(windowTitle, i, RunEnd(windowTitle, i + 1))
    ELSE << >>

currentPathOf(windowTitle) ==
    IF includes(windowTitle, sSlash) THEN OrEmpty(matchPath(windowTitle)) ELSE << >>

documentPathOf(windowTitle) ==
    IF includes(windowTitle, sSlash)
    THEN OrEmpty(matchDocPath(windowTitle))
    ELSE IF includes(windowTitle, sSep)
         THEN LET docPart == split(windowTitle, sSep)[1]
              IN  IF includes(docPart, sDot) THEN docPart ELSE << >>
         ELSE << >>

\* projectPath.split('/').pop() || "" when projectPath is non-empty
projectNameOf(projectPath) ==
    IF Truthy(projectPath)
    THEN LET parts == split(projectPath, sSlash) IN parts[Len(parts)]
    ELSE << >>

ClassInfo ==
    [c \in ClassStrings |->
        [isBrowser |-> isBrowser(c), isIde |-> isIde(c), isTerminal |-> isTerminal(c),
         isFileManager |-> isFileManager(c), isDocument |-> isDocument(c),
         appType |-> detectAppType(c)]]

TitleInfo ==
    [t \in TitleStrings |->
        [url |-> browserUrlOf(t), activeFile |-> activeFileOf(t),
         currentPath |-> currentPathOf(t), documentPath |-> documentPathOf(t)]]

getBrowserUrl ==
    IF ~HasFocused THEN Out(Str(<< >>), {})
    ELSE LET windowClass == focusedClass
             windowTitle == focusedTitle
             url == TitleInfo[windowTitle].url
         IN  IF ~ClassInfo[windowClass].isBrowser
             THEN Out(Json([error |-> <<"N","o","t"," ","a"," ","b","r","o","w","s","e","r"," ","w","i","n","d","o","w">>,
                            windowClass |-> windowClass,
                            isBrowser |-> FALSE]), {})
             ELSE Out(Json([url |-> url,
                            title |-> windowTitle,
                            browserType |-> windowClass,
                            isBrowser |-> TRUE,
                            extractionMethod |-> extractionMethod(url)]), {})

getBrowserTabInfo(now) ==
    IF ~HasFocused THEN Out(Str(<< >>), {})
    ELSE Out(Json([title |-> focusedTitle,
                   windowClass |-> focusedClass,
                   timestamp |-> now,
                   note |-> <<"F","u","l","l"," ","t","a","b"," ","d","e","t","a","i","l","s"," ","r","e","q","u","i","r","e"," ","b","r","o","w","s","e","r","-","s","p","e","c","i","f","i","c"," ","i","n","t","e","g","r","a","t","i","o","n">>]), {})

getIdeProject ==
    IF ~HasFocused THEN Out(Str(<< >>), {})
    ELSE LET windowClass == focusedClass
             windowTitle == focusedTitle
             pid == focusedWindow.pid
             projectPath == readCwd(pid)
         IN  IF ~ClassInfo[windowClass].isIde
             THEN Out(Json([error |-> <<"N","o","t"," ","a","n"," ","I","D","E"," ","w","i","n","d","o","w">>,
                            windowClass |-> windowClass,
                            isIde |-> FALSE]), {})
             ELSE Out(Json([projectPath |-> projectPath,
                            projectName |-> projectNameOf(projectPath),
                            ideType |-> windowClass,
                            windowTitle |-> windowTitle,
                            isIde |-> TRUE]),
                      { << pid, "cwd" >> })

getIdeActiveFile ==
    IF ~HasFocused THEN Out(Str(<< >>), {})
    ELSE LET activeFile == TitleInfo[focusedTitle].activeFile
         IN  Out(Json([activeFile |-> activeFile,
                       windowTitle |-> focusedTitle,
                       ideType |-> focusedClass,
                       extractionMethod |-> extractionMethod(activeFile)]), {})

getTerminalCommand ==
    IF ~HasFocused THEN Out(Str(<< >>), {})
    ELSE LET windowClass == focusedClass
             windowTitle == focusedTitle
             pid == focusedWindow.pid
         IN  IF ~ClassInfo[windowClass].isTerminal
             THEN Out(Json([error |-> <<"N","o","t"," ","a"," ","t","e","r","m","i","n","a","l"," ","w","i","n","d","o","w">>,
                            windowClass |-> windowClass,
                            isTerminal |-> FALSE]), {})
             ELSE Out(Json([workingDirectory |-> readCwd(pid),
                            windowTitle |-> windowTitle,
                            terminalType |-> windowClass,
                            isTerminal |-> TRUE,
                            note |-> <<"C","o","m","m","a","n","d"," ","h","i","s","t","o","r","y"," ","r","e","q","u","i","r","e","s"," ","s","h","e","l","l","-","s","p","e","c","i","f","i","c"," ","i","n","t","e","g","r","a","t","i","o","n">>]),
                      { << pid, "cwd" >> })

\* variant: the refusal also carries the path found in the title
getFileManagerPath_PathInRefusal ==
    IF ~HasFocused THEN Out(Str(<< >>), {})
    ELSE LET windowClass == focusedClass
             windowTitle == focusedTitle
             currentPath == TitleInfo[windowTitle].currentPath
         IN  IF ~ClassInfo[windowClass].isFileManager
             THEN Out(Json([error |-> <<"N","o","t"," ","a"," ","f","i","l","e"," ","m","a","n","a","g","e","r"," ","w","i","n","d","o","w">>,
                            windowClass |-> windowClass,
                            currentPath |-> currentPath,
                            isFileManager |-> FALSE]), {})
             ELSE Out(Json([currentPath |-> currentPath,
                            windowTitle |-> windowTitle,
                            fileManagerType |-> windowClass,
                            isFileManager |-> TRUE,
                            extractionMethod |-> extractionMethod(currentPath)]), {})

getFileManagerPath ==
    IF ~HasFocused THEN Out(Str(<< >>), {})
    ELSE LET windowClass == focusedClass
             windowTitle == focusedTitle
             currentPath == TitleInfo[windowTitle].currentPath
         IN  IF ~ClassInfo[windowClass].isFileManager
             THEN Out(Json([error |-> <<"N","o","t"," ","a"," ","f","i","l","e"," ","m","a","n","a","g","e","r"," ","w","i","n","d","o","w">>,
                            windowClass |-> windowClass,
                            isFileManager |-> FALSE]), {})
             ELSE Out(Json([currentPath |-> currentPath,
                            windowTitle |-> windowTitle,
                            fileManagerType |-> windowClass,
                            isFileManager |-> TRUE,
                            extractionMethod |-> extractionMethod(currentPath)]), {})

getDocumentPath ==
    IF ~HasFocused THEN Out(Str(<< >>), {})
    ELSE LET windowClass == focusedClass
             windowTitle == focusedTitle
             documentPath == TitleInfo[windowTitle].documentPath
         IN  IF ~ClassInfo[windowClass].isDocument
             THEN Out(Json([error |-> <<"N","o","t"," ","a"," ","d","o","c","u","m","e","n","t"," ","a","p","p","l","i","c","a","t","i","o","n">>,
                            windowClass |-> windowClass,
                            isDocument |-> FALSE]), {})
             ELSE Out(Json([documentPath |-> documentPath,
                            windowTitle |-> windowTitle,
                            documentType |-> windowClass,
                            isDocument |-> TRUE,
                            extractionMethod |-> extractionMethod(documentPath)]), {})

\* ------------------------------------------------------------------------
\* getAppContext: detection chain, extractor calls, response
\* ------------------------------------------------------------------------

\* variant: the terminal branch calls the file manager extractor
extractorsOf_TerminalAsFileManager(appType) ==
    CASE appType = "browser" -> << "getBrowserUrl" >>
      [] appType = "ide" -> << "getIdeProject", "getIdeActiveFile" >>
      [] appType = "terminal" -> << "getFileManagerPath" >>
      [] appType = "file_manager" -> << "getFileManagerPath" >>
      [] appType = "document" -> << "getDocumentPath" >>
      [] OTHER -> << >>

\* the operations the branch of each application type calls, in call order
extractorsOf(appType) ==
    CASE appType = "browser" -> << "getBrowserUrl" >>
      [] appType = "ide" -> << "getIdeProject", "getIdeActiveFile" >>
      [] appType = "terminal" -> << "getTerminalCommand" >>
      [] appType = "file_manager" -> << "getFileManagerPath" >>
      [] appType = "document" -> << "getDocumentPath" >>
      [] OTHER -> << >>

\* this.<name>() evaluated in the current state
callExtractor(name) ==
    CASE name = "getBrowserUrl" -> getBrowserUrl
      [] name = "getIdeProject" -> getIdeProject
      [] name = "getIdeActiveFile" -> getIdeActiveFile
      [] name = "getTerminalCommand" -> getTerminalCommand
      [] name = "getFileManagerPath" -> getFileManagerPath
      [] name = "getDocumentPath" -> getDocumentPath

\* JSON.parse(r) succeeds on the encoding of an object and throws a
\* SyntaxError on the empty string
canParse(r) == r.t = "json"

parse(r) == r.v

\* let context = {}
EmptyObject == << >>

\* variant: the two members of an ide's context are exchanged
contextOf_Exchanged(appType, first, second) ==
    CASE appType = "ide" -> [project |-> parse(second), activeFile |-> parse(first)]
      [] appType = "unknown" -> EmptyObject
      [] OTHER -> parse(first)

contextOf(appType, first, second) ==
    CASE appType = "ide" -> [project |-> parse(first), activeFile |-> parse(second)]
      [] appType = "unknown" -> EmptyObject
      [] OTHER -> parse(first)

\* the value getAppContext returns, given its locals and what the extractor
\* calls returned
appContextReturn(f, now) ==
    LET n == Len(extractorsOf(f.appType))
    IN  IF (n >= 1 /\ ~canParse(f.first)) \/ (n >= 2 /\ ~canParse(f.second))
        THEN Thrown
        ELSE Json([appType |-> f.appType,
                   windowClass |-> f.windowClass,
                   windowTitle |-> f.windowTitle,
                   pid |-> f.pid,
                   context |-> contextOf(f.appType, f.first, f.second),
                   timestamp |-> now])

\* variant: a window whose process has no working directory is "unknown"
appContextLocals_ByProcess ==
    [appType |-> IF readCwd(focusedWindow.pid) = << >>
                 THEN "unknown"
                 ELSE ClassInfo[focusedClass].appType,
     windowClass |-> focusedClass,
     windowTitle |-> focusedTitle,
     pid |-> focusedWindow.pid,
     first |-> Str(<< >>),
     second |-> Str(<< >>)]

\* the locals after the lookup and the detection chain
appContextLocals ==
    [appType |-> ClassInfo[focusedClass].appType,
     windowClass |-> focusedClass,
     windowTitle |-> focusedTitle,
     pid |-> focusedWindow.pid,
     first |-> Str(<< >>),
     second |-> Str(<< >>)]

\* getAppContext run to completion with no change of the windows in between
getAppContext(now) ==
    IF ~HasFocused THEN Out(Str(<< >>), {})
    ELSE LET f0 == appContextLocals
             ex == extractorsOf(f0.appType)
             r1 == IF Len(ex) >= 1 THEN callExtractor(ex[1]) ELSE Out(Str(<< >>), {})
             r2 == IF Len(ex) >= 2 THEN callExtractor(ex[2]) ELSE Out(Str(<< >>), {})
             f == [f0 EXCEPT !.first = r1.val, !.second = r2.val]
         IN  Out(appContextReturn(f, now), r1.reads \cup r2.reads)

\* ------------------------------------------------------------------------
\* Phase 3: getAllWindowData, and getVersion
\* ------------------------------------------------------------------------

\* variant: the no-focus reply also carries a performance section
getAllWindowData_WithPerformance(start, end) ==
    IF ~HasFocused
    THEN Out(Json([error |-> <<"N","o"," ","f","o","c","u","s","e","d"," ","w","i","n","d","o","w"," ","f","o","u","n","d">>,
                   timestamp |-> start,
                   dataAvailable |-> FALSE,
                   debug |-> <<"U","s","i","n","g"," ","s","a","m","e"," ","l","o","g","i","c"," ","a","s"," ","g","e","t","W","i","n","F","o","c","u","s","D","a","t","a">>,
                   performance |-> [collectionDuration |-> end - start]]), {})
    ELSE Out(Json([timestamp |-> start,
                   dataCollectionVersion |-> <<"1",".","0">>,
                   extensionInfo |-> [name |-> <<"A","c","t","i","v","e"," ","W","i","n","d","o","w"," ","D","e","t","a","i","l","s">>,
                                      uuid |-> <<"a","c","t","i","v","e","-","w","i","n","d","o","w","-","d","e","t","a","i","l","s","@","i","m","a","g","i","n","a","t","i","o","n","g","u","i","l","d",".","c","o","m">>,
                                      version |-> <<"1",".","0",".","0">>],
                   core |-> [title |-> focusedTitle,
                             windowClass |-> focusedClass,
                             pid |-> focusedWindow.pid],
                   applicationContext |-> [detectedType |-> "unknown",
                                           specificData |-> EmptyObject],
                   performance |-> [collectionDuration |-> end - start]]), {})

\* start is Date.now() after the lookup, end is Date.now() at assembly
getAllWindowData(start, end) ==
    IF ~HasFocused
    THEN Out(Json([error |-> <<"N","o"," ","f","o","c","u","s","e","d"," ","w","i","n","d","o","w"," ","f","o","u","n","d">>,
                   timestamp |-> start,
                   dataAvailable |-> FALSE,
                   debug |-> <<"U","s","i","n","g"," ","s","a","m","e"," ","l","o","g","i","c"," ","a","s"," ","g","e","t","W","i","n","F","o","c","u","s","D","a","t","a">>]), {})
    ELSE Out(Json([timestamp |-> start,
                   dataCollectionVersion |-> <<"1",".","0">>,
                   extensionInfo |-> [name |-> <<"A","c","t","i","v","e"," ","W","i","n","d","o","w"," ","D","e","t","a","i","l","s">>,
                                      uuid |-> <<"a","c","t","i","v","e","-","w","i","n","d","o","w","-","d","e","t","a","i","l","s","@","i","m","a","g","i","n","a","t","i","o","n","g","u","i","l","d",".","c","o","m">>,
                                      version |-> <<"1",".","0",".","0">>],
                   core |-> [title |-> focusedTitle,
                             windowClass |-> focusedClass,
                             pid |-> focusedWindow.pid],
                   applicationContext |-> [detectedType |-> "unknown",
                                           specificData |-> EmptyObject],
                   performance |-> [collectionDuration |-> end - start]]), {})

\* what Me.metadata can be: unreadable, complete, or lacking fields
MetadataSamples ==
    { [st |-> "throw", version |-> NULL, name |-> NULL, uuid |-> NULL,
       description |-> NULL, shellVersions |-> NULL, url |-> NULL],
      [st |-> "ok", version |-> <<"2",".","1",".","0">>, name |-> <<"A","c","t","i","v","e"," ","W","i","n","d","o","w"," ","D","e","t","a","i","l","s">>,
       uuid |-> <<"a","c","t","i","v","e","-","w","i","n","d","o","w","-","d","e","t","a","i","l","s","@","i","m","a","g","i","n","a","t","i","o","n","g","u","i","l","d",".","c","o","m">>,
       description |-> <<"W","i","n","d","o","w"," ","d","e","t","a","i","l","s"," ","o","v","e","r"," ","D","-","B","u","s">>,
       shellVersions |-> << <<"4","5">>, <<"4","6">> >>,
       url |-> <<"h","t","t","p","s",":","/","/","e","x","a","m","p","l","e",".","o","r","g","/","a","w","d">>],
      [st |-> "ok", version |-> NULL, name |-> NULL, uuid |-> NULL,
       description |-> NULL, shellVersions |-> NULL, url |-> NULL] }

\* x || d
OrDefault(x, d) == IF Truthy(x) THEN x ELSE d

\* variant: the version of the metadata is never consulted
getVersion_DefaultVersion(metadata, now) ==
    IF metadata.st = "ok"
    THEN Out(Json([version |-> <<"1",".","0",".","0">>,
                   name |-> OrDefault(metadata.name, <<"A","c","t","i","v","e"," ","W","i","n","d","o","w"," ","D","e","t","a","i","l","s">>),
                   uuid |-> OrDefault(metadata.uuid, <<"a","c","t","i","v","e","-","w","i","n","d","o","w","-","d","e","t","a","i","l","s","@","i","m","a","g","i","n","a","t","i","o","n","g","u","i","l","d",".","c","o","m">>),
                   description |-> OrDefault(metadata.description, << >>),
                   shellVersions |-> OrDefault(metadata.shellVersions,
                                               << <<"4","5">>, <<"4","6">>, <<"4","7">> >>),
                   url |-> OrDefault(metadata.url, << >>),
                   timestamp |-> now]), { << "metadata", metadata >> })
    ELSE Out(Json([version |-> <<"1",".","0",".","0">>,
                   name |-> <<"A","c","t","i","v","e"," ","W","i","n","d","o","w"," ","D","e","t","a","i","l","s">>,
                   uuid |-> <<"a","c","t","i","v","e","-","w","i","n","d","o","w","-","d","e","t","a","i","l","s","@","i","m","a","g","i","n","a","t","i","o","n","g","u","i","l","d",".","c","o","m">>,
                   error |-> <<"C","o","u","l","d"," ","n","o","t"," ","r","e","a","d"," ","m","e","t","a","d","a","t","a">>,
                   timestamp |-> now]), { << "metadata", metadata >> })

getVersion(metadata, now) ==
    IF metadata.st = "ok"
    THEN Out(Json([version |-> OrDefault(metadata.version, <<"1",".","0",".","0">>),
                   name |-> OrDefault(metadata.name, <<"A","c","t","i","v","e"," ","W","i","n","d","o","w"," ","D","e","t","a","i","l","s">>),
                   uuid |-> OrDefault(metadata.uuid, <<"a","c","t","i","v","e","-","w","i","n","d","o","w","-","d","e","t","a","i","l","s","@","i","m","a","g","i","n","a","t","i","o","n","g","u","i","l","d",".","c","o","m">>),
                   description |-> OrDefault(metadata.description, << >>),
                   shellVersions |-> OrDefault(metadata.shellVersions,
                                               << <<"4","5">>, <<"4","6">>, <<"4","7">> >>),
                   url |-> OrDefault(metadata.url, << >>),
                   timestamp |-> now]), { << "metadata", metadata >> })
    ELSE Out(Json([version |-> <<"1",".","0",".","0">>,
                   name |-> <<"A","c","t","i","v","e"," ","W","i","n","d","o","w"," ","D","e","t","a","i","l","s">>,
                   uuid |-> <<"a","c","t","i","v","e","-","w","i","n","d","o","w","-","d","e","t","a","i","l","s","@","i","m","a","g","i","n","a","t","i","o","n","g","u","i","l","d",".","c","o","m">>,
                   error |-> <<"C","o","u","l","d"," ","n","o","t"," ","r","e","a","d"," ","m","e","t","a","d","a","t","a">>,
                   timestamp |-> now]), { << "metadata", metadata >> })

\* ------------------------------------------------------------------------
\* Initial states
\* ------------------------------------------------------------------------

NoCall == [op |-> "none", val |-> Str(<< >>), reads |-> {}]

NothingSeen == [windowClass |-> NULL, pid |-> 0, appType |-> "none"]

ProcTable(r) == [p \in Pids |-> IF p = 101 THEN r ELSE ProcRestricted]

\* window lists of two windows, of which none, one or both report focus:
\* a browser and a terminal, or two windows of one IDE class
PairLists ==
    { << MkWindow(f1, <<"G","i","t","H","u","b"," ","-"," ","h","t","t","p","s",":","/","/","g","i","t","h","u","b",".","c","o","m"," ","-"," ","B","r","a","v","e">>, <<"B","r","a","v","e","-","b","r","o","w","s","e","r">>, 101, DefaultAux),
         MkWindow(f2, <<"u","s","e","r","@","h","o","s","t",":"," ","~">>, <<"x","t","e","r","m">>, 202, DefaultAux) >> :
        f1 \in BOOLEAN, f2 \in BOOLEAN }
    \cup
    { << MkWindow(f1, <<"R","E","A","D","M","E",".","m","d"," ","-"," ","m","y","p","r","o","j","e","c","t"," ","-"," ","C","u","r","s","o","r">>, <<"C","u","r","s","o","r">>, 101, DefaultAux),
         MkWindow(f2, <<"u","s","e","r","@","h","o","s","t",":"," ","~">>, <<"C","u","r","s","o","r">>, 202, DefaultAux) >> :
        f1 \in BOOLEAN, f2 \in BOOLEAN }

\* one window of any class and title, or none, over a live process
InitClassTitle ==
    /\ wins \in { << >> } \cup { << w >> : w \in ClassTitleWindows }
    /\ proc = ProcTable(ProcAlive)

\* a fixed IDE window with any role and workspace, or two windows, over any
\* condition of the process records
InitSession ==
    /\ wins \in { << w >> : w \in AuxWindows } \cup PairLists
    /\ proc \in { ProcTable(r) : r \in ProcSamples }

\* this._dbus (null, or the wrapped object) together with the number of
\* exports of the operation surface that are active on the session bus:
\* before enable() and after disable(), and while exported
NoHandle == [handle |-> "null", exports |-> 0]

Exported == [handle |-> "object", exports |-> 1]

\* install.sh is not running
NoScript ==
    [pc |-> "idle", userDir |-> TRUE, files |-> TRUE,
     enable_attempts |-> 0, enabled |-> FALSE,
     commands |-> 0, warned |-> FALSE, tested |-> "no", status |-> 0]

\* the extension object as constructed: nothing called, nothing exported
Quiet ==
    /\ ret = NoCall
    /\ seen = NothingSeen
    /\ pc = "idle"
    /\ frame = NoFrame
    /\ dbus = NoHandle
    /\ script = NoScript

Init == (InitClassTitle \/ InitSession) /\ Quiet

\* ------------------------------------------------------------------------
\* The environment: windows gain and lose focus, change their title, close
\* and open; processes exit. The reply of the last call has been delivered
\* by then.
\* ------------------------------------------------------------------------

FocusChange(i) ==
    /\ i \in 1..Len(wins)
    /\ wins' = [wins EXCEPT ![i].focus = ~wins[i].focus]
    /\ ret' = NoCall
    /\ UNCHANGED << proc, seen, pc, frame, dbus, script >>

TitleChange(i, t) ==
    /\ i \in 1..Len(wins)
    /\ wins[i].title # t
    /\ wins' = [wins EXCEPT ![i].title = t]
    /\ ret' = NoCall
    /\ UNCHANGED << proc, seen, pc, frame, dbus, script >>

UnmapWindow(i) ==
    /\ i \in 1..Len(wins)
    /\ wins' = SubSeq(wins, 1, i - 1) \o SubSeq(wins, i + 1, Len(wins))
    /\ ret' = NoCall
    /\ UNCHANGED << proc, seen, pc, frame, dbus, script >>

ProcExit(p) ==
    /\ \E i \in 1..Len(wins) : wins[i].pid = p
    /\ proc[p] # ProcGone
    /\ proc' = [proc EXCEPT ![p] = ProcGone]
    /\ ret' = NoCall
    /\ UNCHANGED << wins, seen, pc, frame, dbus, script >>

MapWindow(w) ==
    /\ Len(wins) < MaxWindows
    /\ wins' = Append(wins, w)
    /\ ret' = NoCall
    /\ UNCHANGED << proc, seen, pc, frame, dbus, script >>

\* ------------------------------------------------------------------------
\* The lifecycle calls of GNOME Shell. They run on the main loop, so never
\* inside an operation call. The operations are reached through the
\* exported object only.
\* ------------------------------------------------------------------------

enable ==
    /\ pc = "idle"
    /\ dbus' = IF dbus.handle = "null"
               THEN [handle |-> "object", exports |-> dbus.exports + 1]
               ELSE dbus
    /\ ret' = NoCall
    /\ UNCHANGED << wins, proc, seen, pc, frame, script >>

\* variant: the handle is kept after the surface has been unexported
disable_KeepsHandle ==
    /\ pc = "idle"
    /\ dbus' = IF dbus.handle # "null"
               THEN [handle |-> "object", exports |-> 0]
               ELSE dbus
    /\ ret' = NoCall
    /\ UNCHANGED << wins, proc, seen, pc, frame, script >>

disable ==
    /\ pc = "idle"
    /\ dbus' = IF dbus.handle # "null"
               THEN [handle |-> "null", exports |-> dbus.exports - 1]
               ELSE dbus
    /\ ret' = NoCall
    /\ UNCHANGED << wins, proc, seen, pc, frame, script >>

Lifecycle == enable \/ disable

WindowEvents ==
    \/ \E i \in 1..MaxWindows : FocusChange(i)
    \/ \E i \in 1..MaxWindows, t \in RetitleSamples : TitleChange(i, t)
    \/ \E i \in 1..MaxWindows : UnmapWindow(i)

\* ------------------------------------------------------------------------
\* Operation calls. GNOME Shell runs a D-Bus method handler to completion on
\* its main loop, so a call is one step.
\* ------------------------------------------------------------------------

\* variant: a call of getProcessCmdline marks the process record as consumed
Return_ConsumingRecord(op, out) ==
    /\ dbus.exports > 0
    /\ pc = "idle"
    /\ ret' = [op |-> op, val |-> out.val, reads |-> out.reads]
    /\ proc' = IF op = "getProcessCmdline" /\ HasFocused
               THEN [proc EXCEPT ![focusedWindow.pid].cmdline = ReadFail]
               ELSE proc
    /\ UNCHANGED << wins, pc, frame, dbus, script >>

Return(op, out) ==
    /\ dbus.exports > 0
    /\ pc = "idle"
    /\ ret' = [op |-> op, val |-> out.val, reads |-> out.reads]
    /\ UNCHANGED << wins, proc, pc, frame, dbus, script >>

CallGetWinFocusData == Return("getWinFocusData", getWinFocusData) /\ UNCHANGED seen

\* variant: the pid of the last getAppContext reply is kept and reused
CallGetWinPID_Cached ==
    /\ Return("getWinPID",
              IF seen.pid # 0 THEN Out(Str(NatToString(seen.pid)), {}) ELSE getWinPID)
    /\ UNCHANGED seen

CallGetWinPID == Return("getWinPID", getWinPID) /\ UNCHANGED seen

CallGetWinClass == Return("getWinClass", getWinClass) /\ UNCHANGED seen

CallGetWinRole == Return("getWinRole", getWinRole) /\ UNCHANGED seen

CallGetProcessName == Return("getProcessName", getProcessName) /\ UNCHANGED seen

CallGetProcessPath == Return("getProcessPath", getProcessPath) /\ UNCHANGED seen

CallGetProcessCmdline == Return("getProcessCmdline", getProcessCmdline) /\ UNCHANGED seen

CallGetProcessCwd == Return("getProcessCwd", getProcessCwd) /\ UNCHANGED seen

CallGetWinGeometry == Return("getWinGeometry", getWinGeometry) /\ UNCHANGED seen

CallGetWinWorkspace == Return("getWinWorkspace", getWinWorkspace) /\ UNCHANGED seen

CallGetProcessParent == Return("getProcessParent", getProcessParent) /\ UNCHANGED seen

CallGetBrowserUrl == Return("getBrowserUrl", getBrowserUrl) /\ UNCHANGED seen

CallGetBrowserTabInfo ==
    /\ \E now \in Clock : Return("getBrowserTabInfo", getBrowserTabInfo(now))
    /\ UNCHANGED seen

CallGetIdeProject == Return("getIdeProject", getIdeProject) /\ UNCHANGED seen

CallGetIdeActiveFile == Return("getIdeActiveFile", getIdeActiveFile) /\ UNCHANGED seen

CallGetTerminalCommand == Return("getTerminalCommand", getTerminalCommand) /\ UNCHANGED seen

CallGetFileManagerPath == Return("getFileManagerPath", getFileManagerPath) /\ UNCHANGED seen

CallGetDocumentPath == Return("getDocumentPath", getDocumentPath) /\ UNCHANGED seen

\* what a caller keeps of getAppContext replies: the first reply it got for
\* the class of the latest reply
Noted(r) ==
    IF r.t = "json"
    THEN IF seen.windowClass = r.v.windowClass
         THEN seen
         ELSE [windowClass |-> r.v.windowClass, pid |-> r.v.pid, appType |-> r.v.appType]
    ELSE seen

CallGetAppContext ==
    \E now \in Clock :
        /\ Return("getAppContext", getAppContext(now))
        /\ seen' = Noted(getAppContext(now).val)

\* the two readings of Date.now(), the wall clock, which the system may set
\* back between them
CallGetAllWindowData ==
    /\ \E start \in Clock, end \in Clock :
          Return("getAllWindowData", getAllWindowData(start, end))
    /\ UNCHANGED seen

CallGetVersion ==
    /\ \E metadata \in MetadataSamples, now \in Clock :
          Return("getVersion", getVersion(metadata, now))
    /\ UNCHANGED seen

Calls ==
    \/ CallGetWinFocusData
    \/ CallGetWinPID
    \/ CallGetWinClass
    \/ CallGetWinRole
    \/ CallGetProcessName
    \/ CallGetProcessPath
    \/ CallGetProcessCmdline
    \/ CallGetProcessCwd
    \/ CallGetWinGeometry
    \/ CallGetWinWorkspace
    \/ CallGetProcessParent
    \/ CallGetBrowserUrl
    \/ CallGetBrowserTabInfo
    \/ CallGetIdeProject
    \/ CallGetIdeActiveFile
    \/ CallGetTerminalCommand
    \/ CallGetFileManagerPath
    \/ CallGetDocumentPath
    \/ CallGetAppContext
    \/ CallGetAllWindowData
    \/ CallGetVersion

Next == WindowEvents \/ Lifecycle \/ Calls

Spec == Init /\ [][Next]_vars

\* ------------------------------------------------------------------------
\* getAppContext with the windowing system changing between its lookups:
\* the lookup at its start and the lookup inside each extractor it calls
\* are separate steps, and windows may also open in between
\* ------------------------------------------------------------------------

AppContextLookup ==
    /\ dbus.exports > 0
    /\ pc = "idle"
    /\ IF ~HasFocused
       THEN /\ ret' = [op |-> "getAppContext", val |-> Str(<< >>), reads |-> {}]
            /\ UNCHANGED << pc, frame >>
       ELSE /\ frame' = appContextLocals
            /\ pc' = IF extractorsOf(appContextLocals.appType) = << >>
                     THEN "return" ELSE "first"
            /\ ret' = NoCall
    /\ UNCHANGED << wins, proc, seen, dbus, script >>

AppContextExtract ==
    /\ pc \in {"first", "second"}
    /\ LET ex == extractorsOf(frame.appType)
           k == IF pc = "first" THEN 1 ELSE 2
           r == callExtractor(ex[k]).val
       IN  IF ~canParse(r)
           THEN /\ ret' = [op |-> "getAppContext", val |-> Thrown, reads |-> {}]
                /\ pc' = "idle"
                /\ frame' = NoFrame
           ELSE /\ frame' = IF k = 1 THEN [frame EXCEPT !.first = r]
                                     ELSE [frame EXCEPT !.second = r]
                /\ pc' = IF k < Len(ex) THEN "second" ELSE "return"
                /\ UNCHANGED ret
    /\ UNCHANGED << wins, proc, seen, dbus, script >>

AppContextFinish ==
    /\ pc = "return"
    /\ \E now \in Clock :
          ret' = [op |-> "getAppContext", val |-> appContextReturn(frame, now), reads |-> {}]
    /\ pc' = "idle"
    /\ frame' = NoFrame
    /\ UNCHANGED << wins, proc, seen, dbus, script >>

NextInterleaved ==
    \/ WindowEvents
    \/ Lifecycle
    \/ \E p \in Pids : ProcExit(p)
    \/ \E w \in NewWindows : MapWindow(w)
    \/ AppContextLookup
    \/ AppContextExtract
    \/ AppContextFinish

InitInterleaved == InitSession /\ Quiet

SpecInterleaved == InitInterleaved /\ [][NextInterleaved]_vars

\* ------------------------------------------------------------------------
\* Properties
\* ------------------------------------------------------------------------

CoreOps ==
    { "getWinFocusData", "getWinPID", "getWinClass", "getWinRole",
      "getProcessName", "getProcessPath", "getProcessCmdline", "getProcessCwd",
      "getWinGeometry", "getWinWorkspace", "getProcessParent" }

ContextOps ==
    { "getBrowserUrl", "getBrowserTabInfo", "getIdeProject", "getIdeActiveFile",
      "getTerminalCommand", "getFileManagerPath", "getDocumentPath", "getAppContext" }

\* a step in which the operation op is called and returns
IsCallOf(op) == wins' = wins /\ proc' = proc /\ ret'.op = op

\* the returned string encodes an object
IsObject(r) == r.t = "json"

\* C1: in every state of the windows and the process records, every exported
\* operation returns a string and does not throw.
C1_EveryOperationReturnsString ==
    ret.op # "none" => IsString(ret.val)

\* C2: when the focus moves or is lost between the lookup at the start of
\* getAppContext and the lookups of the extractors it calls, getAppContext
\* still completes and returns a string; no exception leaves it.
C2_FocusChangeIsNotAnError ==
    ret.op = "getAppContext" => IsString(ret.val)

\* C3: when no window reports focus, each of the 11 core operations and each
\* of the 8 context operations returns the empty string and reads no process
\* record.
C3_NoFocusGivesEmptyString ==
    [][ (/\ wins' = wins
         /\ proc' = proc
         /\ ret'.op \in CoreOps \cup ContextOps
         /\ ~HasFocused)
        => (IsEmptyString(ret'.val) /\ ret'.reads = {}) ]_vars

C3_Witness ==
    /\ Len(wins) >= 1
    /\ ~HasFocused
    /\ ret.op \in { "getProcessName", "getProcessCwd", "getIdeProject", "getAppContext" }
    /\ IsEmptyString(ret.val)
    /\ ret.reads = {}

\* C4 as claimed: without a focused window getAllWindowData returns exactly
\* the three fields error, timestamp, dataAvailable.
C4_ExactlyThreeFields ==
    [][ (IsCallOf("getAllWindowData") /\ ~HasFocused)
        => (/\ IsObject(ret'.val)
            /\ DOMAIN ret'.val.v = { "error", "timestamp", "dataAvailable" }) ]_vars

\* C4 amended: without a focused window getAllWindowData returns the fields
\* error = "No focused window found", timestamp (a number), dataAvailable =
\* false and a fourth field debug, and none of the sections core,
\* applicationContext, performance.
C4_NoFocusShape ==
    [][ (IsCallOf("getAllWindowData") /\ ~HasFocused)
        => (/\ IsObject(ret'.val)
            /\ DOMAIN ret'.val.v = { "error", "timestamp", "dataAvailable", "debug" }
            /\ ret'.val.v.error = <<"N","o"," ","f","o","c","u","s","e","d"," ","w","i","n","d","o","w"," ","f","o","u","n","d">>
            /\ ret'.val.v.timestamp \in Nat
            /\ ret'.val.v.dataAvailable = FALSE
            /\ ret'.val.v.debug = <<"U","s","i","n","g"," ","s","a","m","e"," ","l","o","g","i","c"," ","a","s"," ","g","e","t","W","i","n","F","o","c","u","s","D","a","t","a">>) ]_vars

C4_Witness ==
    /\ ~HasFocused
    /\ Len(wins) >= 1
    /\ ret.op = "getAllWindowData"
    /\ IsObject(ret.val)
    /\ "error" \in DOMAIN ret.val.v

\* ---- the categories and their keyword sets, stated independently of the
\* ---- detection chain

Categories == << "browser", "ide", "terminal", "file_manager", "document" >>

KeywordLists ==
    << browserClasses, ideClasses, terminalClasses, fileManagerClasses, documentClasses >>

SameLetter(a, b) ==
    a = b \/ \E n \in 1..26 : { a, b } = { UpperChars[n], LowerChars[n] }

\* k occurs in s, letter case ignored
ContainsIgnoringCase(s, k) ==
    \E i \in 1..Len(s) :
        /\ i + Len(k) - 1 <= Len(s)
        /\ \A j \in 1..Len(k) : SameLetter(s[i + j - 1], k[j])

WithoutHyphens(k) == SelectSeq(k, LAMBDA ch : ch # "-")

\* the class contains a keyword of the n-th category
KeywordHit(n, c) ==
    \E i \in 1..Len(KeywordLists[n]) : ContainsIgnoringCase(c, KeywordLists[n][i])

\* the same, a browser keyword also counting with its hyphen removed
KeywordHitOrUnhyphenated(n, c) ==
    \/ KeywordHit(n, c)
    \/ /\ n = 1
       /\ \E i \in 1..Len(browserClasses) :
             ContainsIgnoringCase(c, WithoutHyphens(browserClasses[i]))

FirstCategory(Hit(_, _), c) ==
    IF \E n \in 1..5 : Hit(n, c)
    THEN Categories[Least({ n \in 1..5 : Hit(n, c) })]
    ELSE "unknown"

ClaimedCategory == [c \in ClassStrings |-> FirstCategory(KeywordHit, c)]

OrderedCategory == [c \in ClassStrings |-> FirstCategory(KeywordHitOrUnhyphenated, c)]

OwnKeywordHit ==
    [c \in ClassStrings |-> [n \in 1..5 |-> KeywordHitOrUnhyphenated(n, c)]]

\* C5 as claimed: the appType of getAppContext is the first category, in the
\* order browser, ide, terminal, file_manager, document, one of whose
\* keywords is contained in the class, letter case ignored; "unknown" with
\* an empty context when there is none.
C5_FirstCategoryByKeyword ==
    [][ (IsCallOf("getAppContext") /\ HasFocused)
        => (/\ IsObject(ret'.val)
            /\ ret'.val.v.appType = ClaimedCategory[focusedClass]
            /\ (ret'.val.v.appType = "unknown" => ret'.val.v.context = EmptyObject)) ]_vars

\* C5 amended: as claimed, a browser keyword also counting as contained when
\* the keyword with its hyphen removed is contained (class "bravebrowser" is
\* a browser).
C5_FirstCategoryInOrder ==
    [][ (IsCallOf("getAppContext") /\ HasFocused)
        => (/\ IsObject(ret'.val)
            /\ ret'.val.v.appType = OrderedCategory[focusedClass]
            /\ (ret'.val.v.appType = "unknown" => ret'.val.v.context = EmptyObject)) ]_vars

\* a class with a browser and an IDE keyword was reported as browser
C5_Witness ==
    /\ HasFocused
    /\ ret.op = "getAppContext"
    /\ IsObject(ret.val)
    /\ OwnKeywordHit[focusedClass][1]
    /\ OwnKeywordHit[focusedClass][2]
    /\ ret.val.v.appType = "browser"

\* C6: the category getAppContext reports is a function of the window class
\* alone: a reply for a class reports the category that the first reply for
\* that class reported, whatever the title, the process, its records and the
\* calls in between.
C6_CategoryDependsOnClassOnly ==
    (/\ ret.op = "getAppContext"
     /\ IsObject(ret.val)
     /\ seen.windowClass = ret.val.v.windowClass)
    => ret.val.v.appType = seen.appType

\* two replies for one class, from windows of different title and process
\* whose records differ
C6_Witness ==
    /\ ret.op = "getAppContext"
    /\ IsObject(ret.val)
    /\ seen.windowClass = ret.val.v.windowClass
    /\ seen.pid # ret.val.v.pid
    /\ \E i \in 1..Len(wins) :
          wins[i].pid = seen.pid /\ wins[i].title # ret.val.v.windowTitle
    /\ proc[seen.pid] # proc[ret.val.v.pid]

\* ---- the five dedicated extractors

Extractors ==
    { "getBrowserUrl", "getIdeProject", "getTerminalCommand",
      "getFileManagerPath", "getDocumentPath" }

CategoryIndex ==
    [e \in Extractors |->
        CASE e = "getBrowserUrl" -> 1
          [] e = "getIdeProject" -> 2
          [] e = "getTerminalCommand" -> 3
          [] e = "getFileManagerPath" -> 4
          [] e = "getDocumentPath" -> 5]

Discriminator ==
    [e \in Extractors |->
        CASE e = "getBrowserUrl" -> "isBrowser"
          [] e = "getIdeProject" -> "isIde"
          [] e = "getTerminalCommand" -> "isTerminal"
          [] e = "getFileManagerPath" -> "isFileManager"
          [] e = "getDocumentPath" -> "isDocument"]

IsExtractorCall == wins' = wins /\ proc' = proc /\ ret'.op \in Extractors /\ HasFocused

ClaimedErrorText ==
    [e \in Extractors |->
        CASE e = "getBrowserUrl" -> <<"N","o","t"," ","a"," ","b","r","o","w","s","e","r"," ","w","i","n","d","o","w">>
          [] e = "getIdeProject" -> <<"N","o","t"," ","a","n"," ","I","D","E"," ","w","i","n","d","o","w">>
          [] e = "getTerminalCommand" -> <<"N","o","t"," ","a"," ","t","e","r","m","i","n","a","l"," ","w","i","n","d","o","w">>
          [] e = "getFileManagerPath" -> <<"N","o","t"," ","a"," ","f","i","l","e"," ","m","a","n","a","g","e","r"," ","w","i","n","d","o","w">>
          [] e = "getDocumentPath" -> <<"N","o","t"," ","a"," ","d","o","c","u","m","e","n","t"," ","w","i","n","d","o","w">>]

ErrorText ==
    [e \in Extractors |->
        IF e = "getDocumentPath" THEN <<"N","o","t"," ","a"," ","d","o","c","u","m","e","n","t"," ","a","p","p","l","i","c","a","t","i","o","n">>
        ELSE ClaimedErrorText[e]]

NegativeShape(r, e, text) ==
    /\ IsObject(r)
    /\ DOMAIN r.v = { "error", "windowClass", Discriminator[e] }
    /\ r.v[Discriminator[e]] = FALSE
    /\ r.v.windowClass = OrEmpty(focusedWindow.cls)
    /\ r.v.error = text

C8_UniformNegativeShape ==
    [][ (IsExtractorCall /\ ~OwnKeywordHit[focusedClass][CategoryIndex[ret'.op]])
        => NegativeShape(ret'.val, ret'.op, ClaimedErrorText[ret'.op]) ]_vars

\* C8 amended: the same shape, the error of the document extractor reading
\* "Not a document application".
C8_NegativeShape ==
    [][ (IsExtractorCall /\ ~OwnKeywordHit[focusedClass][CategoryIndex[ret'.op]])
        => NegativeShape(ret'.val, ret'.op, ErrorText[ret'.op]) ]_vars

\* a file manager extractor refused a window whose title holds a path
C8_Witness ==
    /\ HasFocused
    /\ ret.op = "getFileManagerPath"
    /\ IsObject(ret.val)
    /\ ret.val.v.isFileManager = FALSE
    /\ includes(focusedTitle, sSlash)

\* ---- the positive shapes

PositiveFields ==
    [e \in Extractors \cup { "getIdeActiveFile" } |->
        CASE e = "getBrowserUrl" ->
               { "url", "title", "browserType", "isBrowser", "extractionMethod" }
          [] e = "getIdeProject" ->
               { "projectPath", "projectName", "ideType", "windowTitle", "isIde" }
          [] e = "getIdeActiveFile" ->
               { "activeFile", "windowTitle", "ideType", "extractionMethod" }
          [] e = "getTerminalCommand" ->
               { "workingDirectory", "windowTitle", "terminalType", "isTerminal", "note" }
          [] e = "getFileManagerPath" ->
               { "currentPath", "windowTitle", "fileManagerType", "isFileManager",
                 "extractionMethod" }
          [] e = "getDocumentPath" ->
               { "documentPath", "windowTitle", "documentType", "isDocument",
                 "extractionMethod" }]

SingleExtractor ==
    [t \in { "browser", "terminal", "file_manager", "document" } |->
        CASE t = "browser" -> "getBrowserUrl"
          [] t = "terminal" -> "getTerminalCommand"
          [] t = "file_manager" -> "getFileManagerPath"
          [] t = "document" -> "getDocumentPath"]

\* C9: getAppContext calls exactly the extractors of the category it
\* detected: the context of an ide has exactly the members project and
\* activeFile, that of a browser, terminal, file manager or document is the
\* positive result of its one extractor, that of unknown is {}; only the
\* working-directory record of the ide or terminal process is read; the
\* reply has the fields appType, windowClass, windowTitle, pid, context,
\* timestamp.
C9_ContextOfDetectedCategory ==
    [][ (IsCallOf("getAppContext") /\ HasFocused)
        => (/\ IsObject(ret'.val)
            /\ DOMAIN ret'.val.v =
                 { "appType", "windowClass", "windowTitle", "pid", "context", "timestamp" }
            /\ ret'.val.v.windowClass = OrEmpty(focusedWindow.cls)
            /\ ret'.val.v.windowTitle = OrEmpty(focusedWindow.title)
            /\ ret'.val.v.pid = focusedWindow.pid
            /\ ret'.val.v.timestamp \in Nat
            /\ LET t == ret'.val.v.appType
                   c == ret'.val.v.context
               IN  /\ t \in { "browser", "ide", "terminal", "file_manager", "document",
                              "unknown" }
                   /\ (t = "ide") =>
                         /\ DOMAIN c = { "project", "activeFile" }
                         /\ DOMAIN c.project = PositiveFields["getIdeProject"]
                         /\ c.project.isIde = TRUE
                         /\ DOMAIN c.activeFile = PositiveFields["getIdeActiveFile"]
                   /\ (t \in DOMAIN SingleExtractor) =>
                         /\ DOMAIN c = PositiveFields[SingleExtractor[t]]
                         /\ c[Discriminator[SingleExtractor[t]]] = TRUE
                   /\ (t = "unknown") => c = EmptyObject
                   /\ ret'.reads = IF t \in { "ide", "terminal" }
                                   THEN { << focusedWindow.pid, "cwd" >> }
                                   ELSE {}) ]_vars

C9_Witness ==
    /\ ret.op = "getAppContext"
    /\ IsObject(ret.val)
    /\ ret.val.v.appType = "ide"
    /\ ret.val.v.context.project.isIde = TRUE
    /\ ret.val.v.context.project.projectName # << >>
    /\ ret.val.v.context.activeFile.activeFile # << >>

\* C10: with the windows and the process records unchanged since a
\* getAppContext reply, the dedicated operation of the reply's category
\* returns the object the reply holds as context (getIdeProject the member
\* project and getIdeActiveFile the member activeFile of an ide's context).
C10_ContextEqualsDedicatedResult ==
    [][ (/\ wins' = wins
         /\ proc' = proc
         /\ ret.op = "getAppContext"
         /\ IsObject(ret.val)
         /\ ret'.op \in Extractors \cup { "getIdeActiveFile" })
        => LET t == ret.val.v.appType
               c == ret.val.v.context
           IN  /\ (t = "ide" /\ ret'.op = "getIdeProject")
                    => (IsObject(ret'.val) /\ ret'.val.v = c.project)
               /\ (t = "ide" /\ ret'.op = "getIdeActiveFile")
                    => (IsObject(ret'.val) /\ ret'.val.v = c.activeFile)
               /\ (t \in DOMAIN SingleExtractor /\ ret'.op = SingleExtractor[t])
                    => (IsObject(ret'.val) /\ ret'.val.v = c) ]_vars

\* getIdeProject answered for an IDE window for which getAppContext had
\* answered
C10_Witness ==
    /\ HasFocused
    /\ ret.op = "getIdeProject"
    /\ IsObject(ret.val)
    /\ ret.val.v.isIde = TRUE
    /\ ret.val.v.projectPath # << >>
    /\ seen.appType = "ide"
    /\ seen.windowClass = ret.val.v.ideType
    /\ seen.pid = focusedWindow.pid

\* ---- getAllWindowData for a focused window

\* C11: for a focused window getAllWindowData reports as
\* applicationContext.detectedType the category the classifier gives the
\* window, and as applicationContext.specificData the context getAppContext
\* returns for it.
C11_SnapshotCarriesAppContext ==
    [][ (IsCallOf("getAllWindowData") /\ HasFocused)
        => (/\ IsObject(ret'.val)
            /\ ret'.val.v.applicationContext.detectedType = ClassInfo[focusedClass].appType
            /\ \E now \in Clock :
                  /\ IsObject(getAppContext(now).val)
                  /\ ret'.val.v.applicationContext.specificData
                        = getAppContext(now).val.v.context) ]_vars

\* C12: for a focused window the getAllWindowData response has all of the
\* sections timestamp, core, applicationContext, dataQuality, performance.
C12_SnapshotHasAllSections ==
    [][ (IsCallOf("getAllWindowData") /\ HasFocused)
        => (/\ IsObject(ret'.val)
            /\ { "timestamp", "core", "applicationContext", "dataQuality", "performance" }
                  \subseteq DOMAIN ret'.val.v) ]_vars

\* C13: for a focused window performance.collectionDuration is a
\* non-negative integer: the clock reading at assembly minus the reading at
\* capture.
C13_DurationIsNonNegative ==
    [][ (IsCallOf("getAllWindowData") /\ HasFocused)
        => (/\ IsObject(ret'.val)
            /\ ret'.val.v.performance.collectionDuration \in Nat
            /\ \E end \in Clock :
                  ret'.val.v.performance.collectionDuration
                     = end - ret'.val.v.timestamp) ]_vars

\* ---- the operations and the state they observe

AllOps == CoreOps \cup ContextOps \cup { "getAllWindowData", "getVersion" }

\* C14: every operation is read-only: a call of any operation, after any
\* calls before it, leaves the handle _dbus, the window list with the focus
\* and the attributes of every window, and the process records unchanged.
C14_OperationsAreReadOnly ==
    [][ ret'.op \in AllOps
        => (dbus' = dbus /\ wins' = wins /\ proc' = proc) ]_vars

\* a process record was read by a call that followed a getAppContext call
C14_Witness ==
    /\ HasFocused
    /\ dbus = Exported
    /\ seen # NothingSeen
    /\ ret.op = "getProcessCmdline"
    /\ ret.reads # {}
    /\ ~IsEmptyString(ret.val)

\* what an extension object that has answered no call before returns for
\* the operation op in the current state of the windows and the process
\* records, for each reading of the clock and of the metadata
FreshResults(op) ==
    CASE op = "getWinFocusData" -> { getWinFocusData }
      [] op = "getWinPID" -> { getWinPID }
      [] op = "getWinClass" -> { getWinClass }
      [] op = "getWinRole" -> { getWinRole }
      [] op = "getProcessName" -> { getProcessName }
      [] op = "getProcessPath" -> { getProcessPath }
      [] op = "getProcessCmdline" -> { getProcessCmdline }
      [] op = "getProcessCwd" -> { getProcessCwd }
      [] op = "getWinGeometry" -> { getWinGeometry }
      [] op = "getWinWorkspace" -> { getWinWorkspace }
      [] op = "getProcessParent" -> { getProcessParent }
      [] op = "getBrowserUrl" -> { getBrowserUrl }
      [] op = "getBrowserTabInfo" -> { getBrowserTabInfo(now) : now \in Clock }
      [] op = "getIdeProject" -> { getIdeProject }
      [] op = "getIdeActiveFile" -> { getIdeActiveFile }
      [] op = "getTerminalCommand" -> { getTerminalCommand }
      [] op = "getFileManagerPath" -> { getFileManagerPath }
      [] op = "getDocumentPath" -> { getDocumentPath }
      [] op = "getAppContext" -> { getAppContext(now) : now \in Clock }
      [] op = "getAllWindowData" ->
           { getAllWindowData(start, end) : start \in Clock, end \in Clock }
      [] op = "getVersion" ->
           { getVersion(metadata, now) : metadata \in MetadataSamples, now \in Clock }

RecordOf ==
    [op \in { "getProcessName", "getProcessPath", "getProcessCmdline",
              "getProcessCwd", "getProcessParent" } |->
        CASE op = "getProcessName" -> "comm"
          [] op = "getProcessPath" -> "exe"
          [] op = "getProcessCmdline" -> "cmdline"
          [] op = "getProcessCwd" -> "cwd"
          [] op = "getProcessParent" -> "stat"]

\* the read of the record of the focused window's process does not succeed
ReadFails(op) == proc[focusedWindow.pid][RecordOf[op]].st # "ok"

IsProcessCall == wins' = wins /\ proc' = proc /\ ret'.op \in DOMAIN RecordOf /\ HasFocused

\* C16 as claimed: for a focused window, when the read of the process
\* record fails (it reports failure or throws), each of getProcessName,
\* getProcessPath, getProcessCmdline, getProcessCwd, getProcessParent returns
\* the empty string, nothing is propagated, and the one read is all the
\* call does.
C16_FailedReadGivesEmptyString ==
    [][ (IsProcessCall /\ ReadFails(ret'.op))
        => (/\ IsEmptyString(ret'.val)
            /\ ret'.reads = { << focusedWindow.pid, RecordOf[ret'.op] >> }) ]_vars

\* C16 amended: as claimed for getProcessName, getProcessCmdline,
\* getProcessCwd and getProcessParent, and for getProcessPath when its read
\* reports failure; when the read of getProcessPath throws, the record is
\* read a second time, as a symbolic link, and the operation returns the
\* link target, or the empty string when that read throws too or gives no
\* target. No failure is propagated.
C16_FailedReadIsAbsorbed ==
    [][ (IsProcessCall /\ ReadFails(ret'.op))
        => LET pid == focusedWindow.pid
               link == proc[pid].exeLink
           IN  /\ IsString(ret'.val)
               /\ IF ret'.op = "getProcessPath" /\ proc[pid].exe.st = "throw"
                  THEN /\ ret'.reads = { << pid, "exe" >>, << pid, "exeLink" >> }
                       /\ ret'.val = IF link.st = "ok" /\ link.data # NULL
                                     THEN Str(link.data)
                                     ELSE Str(<< >>)
                  ELSE /\ IsEmptyString(ret'.val)
                       /\ ret'.reads = { << pid, RecordOf[ret'.op] >> } ]_vars

\* the process of the focused window is gone, and getProcessParent answered
C16_Witness ==
    /\ HasFocused
    /\ ret.op = "getProcessParent"
    /\ proc[focusedWindow.pid].stat.st = "throw"
    /\ IsEmptyString(ret.val)
    /\ ret.reads = { << focusedWindow.pid, "stat" >> }

\* ---------------------------------------------------------------------
\* C17: the url reported by getBrowserUrl

\* i..j is a run of the title that starts with "http://" or "https://",
\* has at least one character after the scheme, holds no whitespace, and
\* is followed by whitespace or by the end of the title
IsUrlRun(t, i, j) ==
    /\ 1 <= i /\ j <= Len(t)
    /\ \/ OccursAt(t, sHttp, i) /\ j >= i + Len(sHttp)
       \/ OccursAt(t, sHttps, i) /\ j >= i + Len(sHttps)
    /\ \A k \in i..j : ~IsSpace(t[k])
    /\ (j = Len(t) \/ IsSpace(t[j + 1]))

MentionsWeb(s) == includes(s, sLitHttp) \/ includes(s, sLitWww)

ClaimedUrl ==
    [t \in TitleStrings |->
        IF includes(t, sSep) /\ MentionsWeb(t)
        THEN LET parts == split(t, sSep)
                 hits == { k \in 1..Len(parts) : MentionsWeb(parts[k]) }
             IN  IF hits = {} THEN << >> ELSE parts[Least(hits)]
        ELSE IF includes(t, sProto)
        THEN LET runs == { r \in (1..Len(t)) \X (1..Len(t)) : IsUrlRun(t, r[1], r[2]) }
             IN  IF runs = {} THEN << >>
                 ELSE LET r == CHOOSE x \in runs : \A y \in runs : x[1] <= y[1]
                      IN  SubSeq(t, r[1], r[2])
        ELSE << >>]

\* C17: for a focused browser window, the url of getBrowserUrl is the first
\* " - "-separated segment of the title that contains "http" or "www" when
\* the title contains " - " and "http" or "www"; otherwise, when the title
\* contains "://", the first run "http://" or "https://" followed by
\* non-whitespace; otherwise empty.  The title
\* "GitHub - https://github.com - Brave" of class "Brave-browser" gives the
\* url "https://github.com" and isBrowser true.
C17_UrlFromTitle ==
    [][ (IsCallOf("getBrowserUrl") /\ HasFocused /\ ClassInfo[focusedClass].isBrowser)
        => /\ IsObject(ret'.val)
           /\ ret'.val.v.isBrowser = TRUE
           /\ ret'.val.v.url = ClaimedUrl[focusedTitle]
           /\ (/\ focusedTitle = <<"G","i","t","H","u","b"," ","-"," ","h","t","t","p","s",":","/","/","g","i","t","h","u","b",".","c","o","m"," ","-"," ","B","r","a","v","e">>
               /\ focusedClass = <<"B","r","a","v","e","-","b","r","o","w","s","e","r">>)
              => ret'.val.v.url = <<"h","t","t","p","s",":","/","/","g","i","t","h","u","b",".","c","o","m">> ]_vars

C17_Witness ==
    /\ HasFocused
    /\ focusedTitle = <<"G","i","t","H","u","b"," ","-"," ","h","t","t","p","s",":","/","/","g","i","t","h","u","b",".","c","o","m"," ","-"," ","B","r","a","v","e">>
    /\ focusedClass = <<"B","r","a","v","e","-","b","r","o","w","s","e","r">>
    /\ ret.op = "getBrowserUrl"
    /\ IsObject(ret.val)
    /\ ret.val.v.isBrowser = TRUE
    /\ ret.val.v.url = <<"h","t","t","p","s",":","/","/","g","i","t","h","u","b",".","c","o","m">>

\* ---------------------------------------------------------------------
\* C18: extractionMethod follows the extracted field

TitleParsers ==
    { "getBrowserUrl", "getIdeActiveFile", "getFileManagerPath", "getDocumentPath" }

\* the field an operation fills from the window title
ExtractedField ==
    [e \in TitleParsers |->
        CASE e = "getBrowserUrl" -> "url"
          [] e = "getIdeActiveFile" -> "activeFile"
          [] e = "getFileManagerPath" -> "currentPath"
          [] e = "getDocumentPath" -> "documentPath"]

IsTitleParserCall ==
    wins' = wins /\ proc' = proc /\ ret'.op \in TitleParsers /\ HasFocused

\* C18: in every positive result of getBrowserUrl, getIdeActiveFile,
\* getFileManagerPath and getDocumentPath, extractionMethod is "window_title"
\* exactly when the extracted field is non-empty and "title_parsing_failed"
\* exactly when it is empty; the call never throws, and an error field is
\* only ever the refusal of the window class, never the effect of a title.
C18_MethodFollowsField ==
    [][ IsTitleParserCall
        => /\ IsObject(ret'.val)
           /\ LET o == ret'.val.v
                  f == ExtractedField[ret'.op]
              IN  IF "error" \in DOMAIN o
                  THEN /\ ret'.op # "getIdeActiveFile"
                       /\ ~OwnKeywordHit[focusedClass][CategoryIndex[ret'.op]]
                  ELSE /\ f \in DOMAIN o
                       /\ "extractionMethod" \in DOMAIN o
                       /\ (o.extractionMethod = <<"w","i","n","d","o","w","_","t","i","t","l","e">>) <=> (o[f] # << >>)
                       /\ (o.extractionMethod = <<"t","i","t","l","e","_","p","a","r","s","i","n","g","_","f","a","i","l","e","d">>) <=> (o[f] = << >>) ]_vars

C18_Witness ==
    /\ HasFocused
    /\ ret.op = "getDocumentPath"
    /\ IsObject(ret.val)
    /\ "error" \notin DOMAIN ret.val.v
    /\ ret.val.v.documentPath = << >>
    /\ ret.val.v.extractionMethod = <<"t","i","t","l","e","_","p","a","r","s","i","n","g","_","f","a","i","l","e","d">>

\* ---------------------------------------------------------------------
\* C19: the activeFile reported by getIdeActiveFile

\* the part of the title before its first " - " (the whole title without one)
FirstSegment(t) ==
    IF includes(t, sSep) THEN SubSeq(t, 1, indexOf(t, sSep) - 1) ELSE t

LooksLikeFileName(s) ==
    /\ \E k \in 1..Len(s) : s[k] = "."
    /\ \A k \in 1..Len(s) : s[k] # "/"
    /\ Len(s) < 50

\* C19: getIdeActiveFile sets activeFile to the first " - "-separated
\* segment of the title exactly when the title contains " - " and that
\* segment contains ".", contains no "/" and is shorter than 50 characters;
\* otherwise activeFile is "" and extractionMethod is "title_parsing_failed"
\* ("README.md - myproject - Cursor" gives "README.md").
C19_ActiveFileFromTitle ==
    [][ (IsCallOf("getIdeActiveFile") /\ HasFocused)
        => /\ IsObject(ret'.val)
           /\ LET o == ret'.val.v
                  t == focusedTitle
              IN  /\ "activeFile" \in DOMAIN o
                  /\ IF includes(t, sSep) /\ LooksLikeFileName(FirstSegment(t))
                     THEN o.activeFile = FirstSegment(t)
                     ELSE /\ o.activeFile = << >>
                          /\ o.extractionMethod = <<"t","i","t","l","e","_","p","a","r","s","i","n","g","_","f","a","i","l","e","d">>
                  /\ t = <<"R","E","A","D","M","E",".","m","d"," ","-"," ","m","y","p","r","o","j","e","c","t"," ","-"," ","C","u","r","s","o","r">>
                     => o.activeFile = <<"R","E","A","D","M","E",".","m","d">> ]_vars

C19_Witness ==
    /\ HasFocused
    /\ focusedTitle = <<"R","E","A","D","M","E",".","m","d"," ","-"," ","m","y","p","r","o","j","e","c","t"," ","-"," ","C","u","r","s","o","r">>
    /\ focusedClass = <<"C","u","r","s","o","r">>
    /\ ret.op = "getIdeActiveFile"
    /\ IsObject(ret.val)
    /\ ret.val.v.activeFile = <<"R","E","A","D","M","E",".","m","d">>

\* ---------------------------------------------------------------------
\* C20: getIdeActiveFile on a window that is not an IDE

\* C20: getIdeActiveFile, called for a focused window that the classifier
\* does not classify as ide, returns the object with exactly the fields
\* error "Not an IDE window", windowClass and isIde false, and no activeFile.
C20_ActiveFileNeedsIde ==
    [][ (/\ IsCallOf("getIdeActiveFile")
         /\ HasFocused
         /\ ClassInfo[focusedClass].appType # "ide")
        => /\ IsObject(ret'.val)
           /\ DOMAIN ret'.val.v = { "error", "windowClass", "isIde" }
           /\ ret'.val.v.error = <<"N","o","t"," ","a","n"," ","I","D","E"," ","w","i","n","d","o","w">>
           /\ ret'.val.v.windowClass = focusedClass
           /\ ret'.val.v.isIde = FALSE ]_vars

\* ---------------------------------------------------------------------
\* C21: the fallback of getProcessPath

\* C21: in getProcessPath, whenever the direct read of the executable record
\* fails, by throwing or by reporting failure, the record is resolved as a
\* symbolic link and the target is returned; "" is returned only when that
\* resolution fails too.
C21_FallbackOnEveryFailure ==
    [][ (/\ IsCallOf("getProcessPath")
         /\ HasFocused
         /\ proc[focusedWindow.pid].exe.st # "ok")
        => LET pid == focusedWindow.pid
               link == proc[pid].exeLink
           IN  /\ << pid, "exeLink" >> \in ret'.reads
               /\ ret'.val = IF link.st = "ok" /\ link.data # NULL
                             THEN Str(link.data)
                             ELSE Str(<< >>) ]_vars

\* ---------------------------------------------------------------------
\* C22: the parent process id reported by getProcessParent

\* the ppid of a status record "pid (comm) state ppid ...": the second
\* space-delimited field after the parenthesis that closes comm
PpidOf(stat) ==
    LET closing == Greatest({ k \in 1..Len(stat) : stat[k] = ")" })
        rest == split(SubSeq(stat, closing + 2, Len(stat)), << " " >>)
    IN  IF Len(rest) >= 2 THEN rest[2] ELSE << >>

\* C22: for a focused window whose status record is readable,
\* getProcessParent returns the parent process id of the window's process,
\* also when the command name in the record contains spaces.
C22_ParentIdOfRecord ==
    [][ (/\ IsCallOf("getProcessParent")
         /\ HasFocused
         /\ proc[focusedWindow.pid].stat.st = "ok"
         /\ includes(proc[focusedWindow.pid].stat.data, << ")" >>))
        => ret'.val = Str(PpidOf(proc[focusedWindow.pid].stat.data)) ]_vars

\* ---------------------------------------------------------------------
\* C23: the documentPath reported by getDocumentPath

\* the claimed rule: the "/"-rooted run with an extension when the title
\* has one, else the first " - " segment when it contains "."
ClaimedDocumentPath ==
    [t \in TitleStrings |->
        IF matchDocPath(t) # NULL THEN matchDocPath(t)
        ELSE IF includes(t, sSep) /\ includes(FirstSegment(t), sDot)
        THEN FirstSegment(t)
        ELSE << >>]

\* C23: for a document window, documentPath is the first "/"-rooted run of
\* non-whitespace characters ending in a "."-extension when the title has
\* one; when it has none but contains " - " and its first segment contains
\* ".", documentPath is that first segment, also when the title contains a
\* "/" elsewhere.
C23_DocumentPathFromTitle ==
    [][ (/\ IsCallOf("getDocumentPath")
         /\ HasFocused
         /\ ClassInfo[focusedClass].isDocument)
        => /\ IsObject(ret'.val)
           /\ ret'.val.v.documentPath = ClaimedDocumentPath[focusedTitle] ]_vars

\* ---------------------------------------------------------------------
\* C24: the currentPath reported by getFileManagerPath

\* i..j is the maximal run of non-whitespace characters that starts at the
\* first "/" of the title
IsFirstSlashRun(t, i, j) ==
    /\ i = indexOf(t, sSlash)
    /\ i <= j /\ j <= Len(t)
    /\ \A k \in i..j : ~IsSpace(t[k])
    /\ (j = Len(t) \/ IsSpace(t[j + 1]))

\* C24: for a file-manager window, currentPath is non-empty exactly when the
\* title contains "/", and is then the maximal run of non-whitespace
\* characters starting at the first "/" of the title.
C24_CurrentPathFromTitle ==
    [][ (/\ IsCallOf("getFileManagerPath")
         /\ HasFocused
         /\ ClassInfo[focusedClass].isFileManager)
        => /\ IsObject(ret'.val)
           /\ LET t == focusedTitle
                  p == ret'.val.v.currentPath
              IN  /\ (p # << >>) <=> includes(t, sSlash)
                  /\ includes(t, sSlash)
                     => \E j \in 1..Len(t) :
                           /\ IsFirstSlashRun(t, indexOf(t, sSlash), j)
                           /\ p = SubSeq(t, indexOf(t, sSlash), j) ]_vars

C24_Witness ==
    /\ HasFocused
    /\ focusedClass = <<"N","a","u","t","i","l","u","s">>
    /\ focusedTitle = <<"H","o","m","e"," ","/","h","o","m","e","/","u","s","e","r","/","D","o","c","u","m","e","n","t","s">>
    /\ ret.op = "getFileManagerPath"
    /\ IsObject(ret.val)
    /\ ret.val.v.isFileManager = TRUE
    /\ ret.val.v.currentPath = <<"/","h","o","m","e","/","u","s","e","r","/","D","o","c","u","m","e","n","t","s">>

\* ---------------------------------------------------------------------
\* C25: the window every operation describes

\* wins[i] reports focus and no window before it in the list does
IsFirstFocused(i) ==
    /\ i \in 1..Len(wins)
    /\ wins[i].focus
    /\ \A j \in 1..(i - 1) : ~wins[j].focus

\* the result r of operation op describes the window w and reads no record
\* of another window's process
Describes(op, r, reads, w) ==
    /\ \A rd \in reads : rd[1] = w.pid
    /\ op = "getWinPID" => r = Str(NatToString(w.pid))
    /\ (op = "getWinFocusData" /\ w.title # NULL) => r = Str(w.title)
    /\ (op = "getWinClass" /\ w.cls # NULL) => r = Str(w.cls)
    /\ op = "getWinRole" => r = Str(OrEmpty(w.role))
    /\ op = "getWinGeometry" => (IsObject(r) /\ r.v.x = w.rect.x /\ r.v.width = w.rect.width)
    /\ IsObject(r) =>
          /\ "windowTitle" \in DOMAIN r.v => r.v.windowTitle = OrEmpty(w.title)
          /\ "windowClass" \in DOMAIN r.v => r.v.windowClass = OrEmpty(w.cls)
          /\ "pid" \in DOMAIN r.v => r.v.pid = w.pid
          /\ "core" \in DOMAIN r.v =>
                /\ r.v.core.title = OrEmpty(w.title)
                /\ r.v.core.windowClass = OrEmpty(w.cls)
                /\ r.v.core.pid = w.pid

\* C25: every operation selects the first window of the list that reports
\* focus: with several focused windows all operations describe that first
\* one, and with none the window is treated as absent.
C25_FirstFocusedWindow ==
    [][ (wins' = wins /\ proc' = proc /\ ret'.op \in AllOps \ { "getVersion" })
        => IF \E i \in 1..Len(wins) : wins[i].focus
           THEN \E i \in 1..Len(wins) :
                   /\ IsFirstFocused(i)
                   /\ Describes(ret'.op, ret'.val, ret'.reads, wins[i])
           ELSE /\ ret'.reads = {}
                /\ IF ret'.op = "getAllWindowData"
                   THEN IsObject(ret'.val) /\ ret'.val.v.dataAvailable = FALSE
                   ELSE IsEmptyString(ret'.val) ]_vars

C25_Witness ==
    /\ Len(wins) = 2
    /\ wins[1].focus /\ wins[2].focus
    /\ wins[1].title # wins[2].title
    /\ wins[1].pid # wins[2].pid
    /\ ret.op = "getProcessName"
    /\ ret.reads = { << wins[1].pid, "comm" >> }

\* ---------------------------------------------------------------------
\* C26: an unreadable working directory

CwdUnreadable(pid) == proc[pid].cwd.st # "ok" \/ proc[pid].cwd.data = NULL

\* C26: for an IDE or terminal window whose working-directory record cannot
\* be read, getIdeProject and getTerminalCommand still return the positive
\* shape (isIde / isTerminal true) with projectPath, projectName or
\* workingDirectory equal to "" and with windowTitle and the type field
\* those of the window.
C26_UnreadableCwdDegrades ==
    [][ (/\ wins' = wins /\ proc' = proc /\ HasFocused
         /\ ret'.op \in { "getIdeProject", "getTerminalCommand" }
         /\ OwnKeywordHit[focusedClass][CategoryIndex[ret'.op]]
         /\ CwdUnreadable(focusedWindow.pid))
        => /\ IsObject(ret'.val)
           /\ "error" \notin DOMAIN ret'.val.v
           /\ ret'.val.v.windowTitle = focusedTitle
           /\ IF ret'.op = "getIdeProject"
              THEN /\ ret'.val.v.isIde = TRUE
                   /\ ret'.val.v.projectPath = << >>
                   /\ ret'.val.v.projectName = << >>
                   /\ ret'.val.v.ideType = focusedClass
              ELSE /\ ret'.val.v.isTerminal = TRUE
                   /\ ret'.val.v.workingDirectory = << >>
                   /\ ret'.val.v.terminalType = focusedClass ]_vars

C26_Witness ==
    /\ HasFocused
    /\ focusedClass = <<"C","u","r","s","o","r">>
    /\ proc[focusedWindow.pid].cwd.st = "throw"
    /\ ret.op = "getIdeProject"
    /\ IsObject(ret.val)
    /\ ret.val.v.isIde = TRUE
    /\ ret.val.v.projectPath = << >>
    /\ ret.val.v.projectName = << >>
    /\ ret.val.v.windowTitle = focusedTitle

\* ---------------------------------------------------------------------
\* C27: the version reported by getVersion

\* C27: getVersion returns the version recorded in the extension's
\* metadata; when the metadata cannot be read it does not throw but returns
\* the object with version "1.0.0", the default name and uuid and the error
\* "Could not read metadata".
C27_VersionOfMetadata ==
    [][ ret'.op = "getVersion"
        => \E m \in MetadataSamples :
              /\ ret'.reads = { << "metadata", m >> }
              /\ IsObject(ret'.val)
              /\ IF m.st = "ok"
                 THEN /\ "error" \notin DOMAIN ret'.val.v
                      /\ m.version # NULL => ret'.val.v.version = m.version
                 ELSE /\ DOMAIN ret'.val.v =
                            { "version", "name", "uuid", "error", "timestamp" }
                      /\ ret'.val.v.version = <<"1",".","0",".","0">>
                      /\ ret'.val.v.name = <<"A","c","t","i","v","e"," ","W","i","n","d","o","w"," ","D","e","t","a","i","l","s">>
                      /\ ret'.val.v.uuid = <<"a","c","t","i","v","e","-","w","i","n","d","o","w","-","d","e","t","a","i","l","s","@","i","m","a","g","i","n","a","t","i","o","n","g","u","i","l","d",".","c","o","m">>
                      /\ ret'.val.v.error = <<"C","o","u","l","d"," ","n","o","t"," ","r","e","a","d"," ","m","e","t","a","d","a","t","a">> ]_vars

C27_Witness ==
    /\ ret.op = "getVersion"
    /\ IsObject(ret.val)
    /\ \E m \in MetadataSamples :
          /\ ret.reads = { << "metadata", m >> }
          /\ m.st = "ok"
          /\ m.version = <<"2",".","1",".","0">>
    /\ ret.val.v.version = <<"2",".","1",".","0">>

\* ---------------------------------------------------------------------
\* C28: enable(), disable() and the export of the operation surface

\* C28: after any sequence of enable() and disable() calls the operation
\* surface is exported (once) exactly when _dbus is non-null; export is
\* never called while an export is active and unexport never without one:
\* a second enable() and a disable() without enable() change nothing, and
\* enable() after disable() exports again.
C28_ExportedIffHandle ==
    /\ [](dbus.exports = IF dbus.handle # "null" THEN 1 ELSE 0)
    /\ [][ /\ dbus'.exports > dbus.exports
              => (dbus.exports = 0 /\ dbus.handle = "null")
           /\ dbus'.exports < dbus.exports
              => (dbus.exports = 1 /\ dbus.handle # "null")
           /\ (dbus.handle = "null" /\ dbus' # dbus)
              => dbus' = [handle |-> "object", exports |-> 1] ]_vars

\* an operation has answered through the surface that enable() exported
C28_Witness ==
    /\ dbus.handle = "object"
    /\ dbus.exports = 1
    /\ ret.op = "getWinPID"

\* ---------------------------------------------------------------------
\* install.sh: install_extension, run by main under `set -e`
\* ---------------------------------------------------------------------

\* local max_enable_attempts=3
max_enable_attempts == 3

\* exit status of ((enable_attempts++)): an arithmetic command returns 1
\* when its value, here the value before the increment, is 0
IncrementStatus(n) == IF n = 0 THEN 1 ELSE 0

\* positions inside the while loop of install_extension
LoopPositions ==
    { "loop_test", "increment", "enable_cmd", "check_enabled", "wait_retry" }

\* the script at the call of install_extension: the user's extensions
\* directory and an earlier installation may or may not be there
InstallStarts ==
    { [NoScript EXCEPT !.pc = "start", !.userDir = d, !.files = f] :
        d \in BOOLEAN, f \in BOOLEAN }

\* one command of install_extension. Under `set -e` a command that returns
\* a non-zero status outside a condition ends the script with that status.
\* The surroundings decide whether gnome-extensions enable succeeds (ok),
\* whether the extension is listed as enabled (listed, listedAtEnd) and
\* whether its D-Bus interface answers (running).
install_extension ==
    /\ script.pc \notin { "idle", "done", "aborted" }
    /\ \E ok \in BOOLEAN, listed \in BOOLEAN, listedAtEnd \in BOOLEAN, running \in BOOLEAN :
        script' =
          CASE script.pc = "start" ->
                 \* mkdir -p "$USER_INSTALL_DIR" when it is missing
                 [script EXCEPT !.userDir = TRUE, !.pc = "check_installed"]
            [] script.pc = "check_installed" ->
                 \* if is_extension_installed: uninstall_extension
                 [script EXCEPT !.files = FALSE, !.pc = "copy"]
            [] script.pc = "copy" ->
                 \* cp -r, chmod -R, and the locals of the loop
                 [script EXCEPT !.files = TRUE, !.enable_attempts = 0,
                                !.enabled = FALSE, !.pc = "loop_test"]
            [] script.pc = "loop_test" ->
                 [script EXCEPT !.pc = IF script.enable_attempts < max_enable_attempts
                                       THEN "increment" ELSE "after_loop"]
            [] script.pc = "increment" ->
                 IF IncrementStatus(script.enable_attempts) # 0
                 THEN [script EXCEPT !.enable_attempts = @ + 1,
                                     !.status = IncrementStatus(script.enable_attempts),
                                     !.pc = "aborted"]
                 ELSE [script EXCEPT !.enable_attempts = @ + 1, !.pc = "enable_cmd"]
            [] script.pc = "enable_cmd" ->
                 [script EXCEPT !.commands = @ + 1,
                                !.pc = IF ok THEN "check_enabled" ELSE "wait_retry"]
            [] script.pc = "check_enabled" ->
                 IF listed
                 THEN [script EXCEPT !.enabled = TRUE, !.pc = "after_loop"]
                 ELSE [script EXCEPT !.pc = "wait_retry"]
            [] script.pc = "wait_retry" ->
                 [script EXCEPT !.pc = "loop_test"]
            [] script.pc = "after_loop" ->
                 [script EXCEPT !.warned = ~script.enabled, !.pc = "test"]
            [] script.pc = "test" ->
                 [script EXCEPT !.tested = IF listed /\ running THEN "running"
                                           ELSE IF listedAtEnd THEN "enabled"
                                           ELSE "not enabled",
                                !.pc = "done"]
    /\ UNCHANGED << wins, proc, ret, seen, pc, frame, dbus >>

\* install.sh is started in a session with two windows, before GNOME Shell
\* has enabled the extension
InitInstall ==
    /\ wins \in PairLists
    /\ proc = ProcTable(ProcAlive)
    /\ ret = NoCall
    /\ seen = NothingSeen
    /\ pc = "idle"
    /\ frame = NoFrame
    /\ dbus = NoHandle
    /\ script \in InstallStarts

\* the script runs while the session goes on: windows change, and GNOME
\* Shell enables and disables the extension
NextInstall == install_extension \/ WindowEvents \/ Lifecycle

SpecInstall == InitInstall /\ [][NextInstall]_vars

\* C29: the enable loop of install_extension makes at most 3 enable
\* attempts and stops at the first attempt after which the extension is
\* listed as enabled; no command of the loop ends the script, which goes on
\* to the installation test and, when no attempt succeeded, has warned that
\* the extension is installed but not enabled.
C29_EnableLoopCompletes ==
    [][ /\ script'.commands <= max_enable_attempts
        /\ script.enabled => script'.commands = script.commands
        /\ script.pc \in LoopPositions => script'.pc # "aborted"
        /\ script'.pc = "done"
           => (script'.tested # "no" /\ (~script'.enabled => script'.warned)) ]_vars

\* ---------------------------------------------------------------------
\* The legacy variant: class EvertrackExtension

\* the keyword tests of the legacy variant's operations and of its
\* getAppContext chain, per window class
\* variant: the browser test does not try the keyword without its hyphen
EvertrackClassInfo_WithoutHyphenFold ==
    [c \in ClassStrings |->
        LET lower == toLowerCase(c)
            anyOf(keywords) == \E k \in keywords : includes(lower, k)
            browser == \E k \in { <<"f","i","r","e","f","o","x">>, <<"c","h","r","o","m","e">>, <<"b","r","a","v","e","-","b","r","o","w","s","e","r">>, <<"c","h","r","o","m","i","u","m">>, <<"s","a","f","a","r","i">>, <<"e","d","g","e">> } :
                           includes(lower, k)
            ide == anyOf({ <<"c","o","d","e">>, <<"c","u","r","s","o","r">>, <<"a","t","o","m">>, <<"s","u","b","l","i","m","e">>, <<"i","n","t","e","l","l","i","j">>, <<"p","y","c","h","a","r","m">>, <<"v","s","c","o","d","e">>, <<"v","i","m">>, <<"e","m","a","c","s">>, <<"g","e","d","i","t">> })
            terminal == anyOf({ <<"g","n","o","m","e","-","t","e","r","m","i","n","a","l">>, <<"t","e","r","m","i","n","a","l">>, <<"k","o","n","s","o","l","e">>, <<"x","t","e","r","m">>, <<"a","l","a","c","r","i","t","t","y">>, <<"t","e","r","m","i","n","a","t","o","r">> })
            fileManager == anyOf({ <<"n","a","u","t","i","l","u","s">>, <<"f","i","l","e","s">>, <<"d","o","l","p","h","i","n">>, <<"t","h","u","n","a","r">>, <<"p","c","m","a","n","f","m">>, <<"n","e","m","o">> })
            document == anyOf({ <<"e","v","i","n","c","e">>, <<"o","k","u","l","a","r">>, <<"l","i","b","r","e","o","f","f","i","c","e">>, <<"w","r","i","t","e","r">>, <<"c","a","l","c">>, <<"i","m","p","r","e","s","s">>, <<"d","r","a","w">>, <<"m","a","t","h">>, <<"a","c","r","o","r","e","a","d">>, <<"x","p","d","f">> })
        IN  [isBrowser |-> browser, isIde |-> ide, isTerminal |-> terminal,
             isFileManager |-> fileManager, isDocument |-> document,
             appType |-> IF browser THEN "browser"
                         ELSE IF ide THEN "ide"
                         ELSE IF terminal THEN "terminal"
                         ELSE IF fileManager THEN "file_manager"
                         ELSE IF document THEN "document"
                         ELSE "unknown"]]

EvertrackClassInfo ==
    [c \in ClassStrings |->
        LET lower == toLowerCase(c)
            anyOf(keywords) == \E k \in keywords : includes(lower, k)
            browser == \E k \in { <<"f","i","r","e","f","o","x">>, <<"c","h","r","o","m","e">>, <<"b","r","a","v","e","-","b","r","o","w","s","e","r">>, <<"c","h","r","o","m","i","u","m">>, <<"s","a","f","a","r","i">>, <<"e","d","g","e">> } :
                           includes(lower, k) \/ includes(lower, replace(k, sHyphen, << >>))
            ide == anyOf({ <<"c","o","d","e">>, <<"c","u","r","s","o","r">>, <<"a","t","o","m">>, <<"s","u","b","l","i","m","e">>, <<"i","n","t","e","l","l","i","j">>, <<"p","y","c","h","a","r","m">>, <<"v","s","c","o","d","e">>, <<"v","i","m">>, <<"e","m","a","c","s">>, <<"g","e","d","i","t">> })
            terminal == anyOf({ <<"g","n","o","m","e","-","t","e","r","m","i","n","a","l">>, <<"t","e","r","m","i","n","a","l">>, <<"k","o","n","s","o","l","e">>, <<"x","t","e","r","m">>, <<"a","l","a","c","r","i","t","t","y">>, <<"t","e","r","m","i","n","a","t","o","r">> })
            fileManager == anyOf({ <<"n","a","u","t","i","l","u","s">>, <<"f","i","l","e","s">>, <<"d","o","l","p","h","i","n">>, <<"t","h","u","n","a","r">>, <<"p","c","m","a","n","f","m">>, <<"n","e","m","o">> })
            document == anyOf({ <<"e","v","i","n","c","e">>, <<"o","k","u","l","a","r">>, <<"l","i","b","r","e","o","f","f","i","c","e">>, <<"w","r","i","t","e","r">>, <<"c","a","l","c">>, <<"i","m","p","r","e","s","s">>, <<"d","r","a","w">>, <<"m","a","t","h">>, <<"a","c","r","o","r","e","a","d">>, <<"x","p","d","f">> })
        IN  [isBrowser |-> browser, isIde |-> ide, isTerminal |-> terminal,
             isFileManager |-> fileManager, isDocument |-> document,
             appType |-> IF browser THEN "browser"
                         ELSE IF ide THEN "ide"
                         ELSE IF terminal THEN "terminal"
                         ELSE IF fileManager THEN "file_manager"
                         ELSE IF document THEN "document"
                         ELSE "unknown"]]

\* what the legacy variant's operations take from a window title
EvertrackTitleInfo ==
    [windowTitle \in TitleStrings |->
        LET parts == split(windowTitle, sSep)
        IN  [url |-> IF /\ includes(windowTitle, sSep)
                        /\ (includes(windowTitle, sLitHttp) \/ includes(windowTitle, sLitWww))
                     THEN OrEmpty(findFirst(parts,
                              LAMBDA part : includes(part, sLitHttp) \/ includes(part, sLitWww)))
                     ELSE IF includes(windowTitle, sProto)
                          THEN OrEmpty(matchUrl(windowTitle))
                          ELSE << >>,
             activeFile |-> IF /\ includes(windowTitle, sSep)
                               /\ includes(parts[1], sDot)
                               /\ ~includes(parts[1], sSlash)
                               /\ Len(parts[1]) < 50
                            THEN parts[1]
                            ELSE << >>,
             currentPath |-> IF includes(windowTitle, sSlash)
                             THEN OrEmpty(matchPath(windowTitle))
                             ELSE << >>,
             documentPath |-> IF includes(windowTitle, sSlash)
                              THEN OrEmpty(matchDocPath(windowTitle))
                              ELSE IF includes(windowTitle, sSep) /\ includes(parts[1], sDot)
                                   THEN parts[1]
                                   ELSE << >>]]

\* the operation op of the legacy variant, run to completion in the
\* current state; now is what Date.now() gives
EvertrackExtension(op, now) ==
    IF ~(\E i \in 1..Len(wins) : wins[i].focus) THEN Out(Str(<< >>), {})
    ELSE
    LET w == wins[Least({ i \in 1..Len(wins) : wins[i].focus })]
        pid == w.pid
        windowClass == OrEmpty(w.cls)
        windowTitle == OrEmpty(w.title)
        class == EvertrackClassInfo[windowClass]
        title == EvertrackTitleInfo[windowTitle]
        file(name) == proc[pid][name]
        symlinkTarget == IF file("cwd").st = "ok" THEN OrEmpty(file("cwd").data) ELSE << >>
        method(value) == IF Truthy(value) THEN <<"w","i","n","d","o","w","_","t","i","t","l","e">> ELSE <<"t","i","t","l","e","_","p","a","r","s","i","n","g","_","f","a","i","l","e","d">>
        BrowserUrl ==
            IF ~class.isBrowser
            THEN Out(Json([error |-> <<"N","o","t"," ","a"," ","b","r","o","w","s","e","r"," ","w","i","n","d","o","w">>,
                           windowClass |-> windowClass,
                           isBrowser |-> FALSE]), {})
            ELSE Out(Json([url |-> title.url,
                           title |-> windowTitle,
                           browserType |-> windowClass,
                           isBrowser |-> TRUE,
                           extractionMethod |-> method(title.url)]), {})
        IdeProject ==
            IF ~class.isIde
            THEN Out(Json([error |-> <<"N","o","t"," ","a","n"," ","I","D","E"," ","w","i","n","d","o","w">>,
                           windowClass |-> windowClass,
                           isIde |-> FALSE]), {})
            ELSE Out(Json([projectPath |-> symlinkTarget,
                           projectName |-> IF Truthy(symlinkTarget)
                                           THEN LET dirs == split(symlinkTarget, sSlash)
                                                IN  dirs[Len(dirs)]
                                           ELSE << >>,
                           ideType |-> windowClass,
                           windowTitle |-> windowTitle,
                           isIde |-> TRUE]),
                     { << pid, "cwd" >> })
        IdeActiveFile ==
            Out(Json([activeFile |-> title.activeFile,
                      windowTitle |-> windowTitle,
                      ideType |-> windowClass,
                      extractionMethod |-> method(title.activeFile)]), {})
        TerminalCommand ==
            IF ~class.isTerminal
            THEN Out(Json([error |-> <<"N","o","t"," ","a"," ","t","e","r","m","i","n","a","l"," ","w","i","n","d","o","w">>,
                           windowClass |-> windowClass,
                           isTerminal |-> FALSE]), {})
            ELSE Out(Json([workingDirectory |-> symlinkTarget,
                           windowTitle |-> windowTitle,
                           terminalType |-> windowClass,
                           isTerminal |-> TRUE,
                           note |-> <<"C","o","m","m","a","n","d"," ","h","i","s","t","o","r","y"," ","r","e","q","u","i","r","e","s"," ","s","h","e","l","l","-","s","p","e","c","i","f","i","c"," ","i","n","t","e","g","r","a","t","i","o","n">>]),
                     { << pid, "cwd" >> })
        FileManagerPath ==
            IF ~class.isFileManager
            THEN Out(Json([error |-> <<"N","o","t"," ","a"," ","f","i","l","e"," ","m","a","n","a","g","e","r"," ","w","i","n","d","o","w">>,
                           windowClass |-> windowClass,
                           isFileManager |-> FALSE]), {})
            ELSE Out(Json([currentPath |-> title.currentPath,
                           windowTitle |-> windowTitle,
                           fileManagerType |-> windowClass,
                           isFileManager |-> TRUE,
                           extractionMethod |-> method(title.currentPath)]), {})
        DocumentPath ==
            IF ~class.isDocument
            THEN Out(Json([error |-> <<"N","o","t"," ","a"," ","d","o","c","u","m","e","n","t"," ","a","p","p","l","i","c","a","t","i","o","n">>,
                           windowClass |-> windowClass,
                           isDocument |-> FALSE]), {})
            ELSE Out(Json([documentPath |-> title.documentPath,
                           windowTitle |-> windowTitle,
                           documentType |-> windowClass,
                           isDocument |-> TRUE,
                           extractionMethod |-> method(title.documentPath)]), {})
        \* JSON.parse of what the extractors returned, and the files they read
        parsed(results) ==
            IF \E i \in 1..Len(results) : results[i].val.t # "json"
            THEN Thrown
            ELSE Json([appType |-> class.appType,
                       windowClass |-> windowClass,
                       windowTitle |-> windowTitle,
                       pid |-> pid,
                       context |-> CASE class.appType = "ide" ->
                                          [project |-> results[1].val.v,
                                           activeFile |-> results[2].val.v]
                                     [] class.appType = "unknown" -> << >>
                                     [] OTHER -> results[1].val.v,
                       timestamp |-> now])
        AppContext(results) ==
            Out(parsed(results), UNION { results[i].reads : i \in 1..Len(results) })
    IN  CASE op = "getWinFocusData" -> Out(Raw(w.title), {})
          [] op = "getWinPID" -> Out(Str(NatToString(pid)), {})
          [] op = "getWinClass" -> Out(Raw(w.cls), {})
          [] op = "getWinRole" -> Out(Str(OrEmpty(w.role)), {})
          [] op = "getProcessName" ->
                Out(IF file("comm").st = "ok" THEN Str(trim(file("comm").data)) ELSE Str(<< >>),
                    { << pid, "comm" >> })
          [] op = "getProcessPath" ->
                (CASE file("exe").st = "ok" ->
                          Out(Str(trim(file("exe").data)), { << pid, "exe" >> })
                   [] file("exe").st = "fail" -> Out(Str(<< >>), { << pid, "exe" >> })
                   [] file("exe").st = "throw" ->
                          Out(IF file("exeLink").st = "ok"
                              THEN Str(OrEmpty(file("exeLink").data))
                              ELSE Str(<< >>),
                              { << pid, "exe" >>, << pid, "exeLink" >> }))
          [] op = "getProcessCmdline" ->
                Out(IF file("cmdline").st = "ok"
                    THEN Str(trim(NulToSpace(file("cmdline").data)))
                    ELSE Str(<< >>),
                    { << pid, "cmdline" >> })
          [] op = "getProcessCwd" -> Out(Str(symlinkTarget), { << pid, "cwd" >> })
          [] op = "getWinGeometry" ->
                Out(Json([x |-> w.rect.x, y |-> w.rect.y,
                          width |-> w.rect.width, height |-> w.rect.height]), {})
          [] op = "getWinWorkspace" ->
                (IF w.ws.has
                 THEN Out(Json([index |-> w.ws.index,
                                name |-> IF w.ws.meta THEN w.ws.name
                                         ELSE <<"W","o","r","k","s","p","a","c","e"," ">> \o NatToString(w.ws.index + 1)]), {})
                 ELSE Out(Str(<< >>), {}))
          [] op = "getProcessParent" ->
                Out(IF file("stat").st = "ok" /\ Len(split(file("stat").data, << " " >>)) >= 4
                    THEN Str(split(file("stat").data, << " " >>)[4])
                    ELSE Str(<< >>),
                    { << pid, "stat" >> })
          [] op = "getBrowserUrl" -> BrowserUrl
          [] op = "getBrowserTabInfo" ->
                Out(Json([title |-> windowTitle,
                          windowClass |-> windowClass,
                          timestamp |-> now,
                          note |-> <<"F","u","l","l"," ","t","a","b"," ","d","e","t","a","i","l","s"," ","r","e","q","u","i","r","e"," ","b","r","o","w","s","e","r","-","s","p","e","c","i","f","i","c"," ","i","n","t","e","g","r","a","t","i","o","n">>]), {})
          [] op = "getIdeProject" -> IdeProject
          [] op = "getIdeActiveFile" -> IdeActiveFile
          [] op = "getTerminalCommand" -> TerminalCommand
          [] op = "getFileManagerPath" -> FileManagerPath
          [] op = "getDocumentPath" -> DocumentPath
          [] op = "getAppContext" ->
                (CASE class.appType = "browser" -> AppContext(<< BrowserUrl >>)
                   [] class.appType = "ide" -> AppContext(<< IdeProject, IdeActiveFile >>)
                   [] class.appType = "terminal" -> AppContext(<< TerminalCommand >>)
                   [] class.appType = "file_manager" -> AppContext(<< FileManagerPath >>)
                   [] class.appType = "document" -> AppContext(<< DocumentPath >>)
                   [] OTHER -> AppContext(<< >>))

\* the operations both variants export
SharedOps == CoreOps \cup ContextOps

\* C30: on each of the nineteen shared operations the legacy variant
\* (class EvertrackExtension) behaves as the current variant: in every
\* state of the windows and the processes a call of the current variant
\* returns what the legacy operation of the same name returns there, and
\* reads the same process files, the timestamps Date.now() supplies aside.
C30_LegacyEquivalence ==
    [][ (ret'.op \in SharedOps /\ IsCallOf(ret'.op))
        => \E now \in Clock :
               EvertrackExtension(ret'.op, now) = Out(ret'.val, ret'.reads) ]_vars

\* the current variant has answered getAppContext for a focused browser
\* window whose class matches only without the hyphen of the keyword, and
\* the legacy variant gives the same answer
C30_Witness ==
    /\ ret.op = "getAppContext"
    /\ ret.val.t = "json"
    /\ ret.val.v.windowClass = <<"b","r","a","v","e","b","r","o","w","s","e","r">>
    /\ ret.val.v.appType = "browser"
    /\ ret.val = EvertrackExtension("getAppContext", ret.val.v.timestamp).val

====
